---- MODULE Spec2Model ----
(***************************************************************************)
(* StoreTrack API: the checkout / sale-recording engine of                 *)
(* src/routes/sales.js (POST /sales, POST /sales/checkout) over the        *)
(* Product catalog and the Sale ledger, with concurrent request handlers.  *)
(*                                                                         *)
(* Storage semantics (MongoDB / mongoose, as used by the routes):          *)
(*  - findOneAndUpdate is one atomic test-and-update on one document;      *)
(*  - session.withTransaction(fn) runs fn in a snapshot transaction: its   *)
(*    writes are private until commit, a write to a document changed since *)
(*    the snapshot or held by another transaction raises WriteConflict     *)
(*    (label TransientTransactionError), on which the driver aborts and    *)
(*    calls fn again; any other error thrown by fn aborts and is rethrown; *)
(*  - a write outside a transaction to a document held by a transaction    *)
(*    waits until that transaction ends.                                   *)
(***************************************************************************)
EXTENDS Integers, Sequences, FiniteSets, TLC

\* ---------------------------------------------------------------- bounds
MaxReq == 2          \* concurrent requests
MaxItems == 2        \* lines in one checkout body
MaxQty == 2          \* quantity of one line
MaxAttempts == 2     \* runs of the withTransaction callback before the driver gives up
MaxUpdates == 1      \* PUT /products/:id calls
StockA == 3          \* initial quantity of product "aa"
StockB == 1          \* initial quantity of product "bb"
MaxRows == 3         \* Sale rows in the ledger a read runs against
MaxClock == 2        \* seconds the clock runs
MaxEdits == 2        \* POST, PUT and DELETE /products calls that write

\* ------------------------------------------------------------ value space
Null == "null"
Undefined == "<undefined>"

ReqIds == 1..MaxReq

\* 24-hex-digit id strings as they arrive in a body; "AA" is "aa" in upper case
IdStrings == {"aa", "AA", "bb", "cc"}
\* ObjectIds of the Product collection
Oids == {"aa", "bb", "cc"}

\* mongoose casts an id string to an ObjectId: hex digits are case-insensitive
ToObjectId(s) == IF s = "AA" THEN "aa" ELSE s

\* accounts the auth middleware can resolve a token to
Principals == {"u1", "s1"}
Account ==
  [p \in Principals |->
     IF p = "u1"
       THEN [userType |-> "user",  role |-> "admin", storeId |-> "u1", name |-> "Owner"]
       ELSE [userType |-> "staff", role |-> "staff", storeId |-> "u1", name |-> "Sam"]]

\* values of req.body.staff: absent, the empty string, another staff member's id
StaffValues == {Undefined, "", "s2"}

\* (product, quantity) lines of a body; quantities pass isInt({ min: 1 })
Lines == ({"aa", "bb"} \X (1..MaxQty)) \cup ({"AA", "cc"} \X {1})
ItemLists == UNION {[1..n -> Lines] : n \in 1..MaxItems}

\* request bodies: every line (list of lines) without a staff field, and every
\* value of the staff field on a one-line body
SaleBodies ==
  {[items |-> <<l>>, staff |-> Undefined] : l \in Lines}
    \cup {[items |-> << <<"aa", 1>> >>, staff |-> v] : v \in StaffValues}
\* values of req.body.client.expectedTotal that pass isNumeric()
ExpectedTotals == {<<"num", 5>>, <<"num", 4>>}

\* a checkout body may also carry client.expectedTotal (absent: undefined)
CheckoutBodies ==
  {[items |-> it, staff |-> Undefined, expectedTotal |-> <<"undefined">>] : it \in ItemLists}
    \cup {[items |-> << <<"aa", 1>> >>, staff |-> v, expectedTotal |-> <<"undefined">>] :
             v \in StaffValues}
    \cup {[items |-> << <<"aa", 1>> >>, staff |-> Undefined, expectedTotal |-> e] :
             e \in ExpectedTotals}

\* stored Product.price: a number, null, or the field absent
PriceValues == {<<"num", 5>>, <<"num", 3>>, <<"null">>, <<"undefined">>}
\* prices product "aa" may hold when the requests arrive
InitialPrices == {<<"num", 5>>, <<"null">>, <<"undefined">>}

\* JavaScript Number(v): a finite number <<n>>, or NaN <<>>
NaN == <<>>
Number(v) ==
  CASE v[1] = "num" -> <<v[2]>>
    [] v[1] = "null" -> <<0>>
    [] OTHER -> NaN
IsFinite(n) == n # NaN

\* JavaScript truthiness of a string-or-undefined value
Truthy(v) == v # Undefined /\ v # ""

VARIABLES
  products,    \* committed Product documents, by ObjectId
  sales,       \* committed Sale rows, in insertion order
  req,         \* per request: handler position, locals and response
  nextId,      \* ObjectIds minted so far by new mongoose.Types.ObjectId()
  updates,     \* PUT /products/:id calls so far
  accounts,    \* User and Staff documents, by _id: whether stored, and refreshToken
  now          \* the server's clock, in seconds

vars == <<products, sales, req, nextId, updates, accounts, now>>

\* _ids of the User and Staff collections: the owner, two staff members
AccountIds == Principals \cup {"s2"}

\* typ of the tokens of an account: "user" for a User, "staff" for a Staff document
Typ(a) == IF a = "u1" THEN "user" ELSE "staff"

\* jwt.sign({ id, typ }, JWT_REFRESH_SECRET, { expiresIn }): the token is a function of
\* the payload, and the payload is id, typ and iat, the clock in whole seconds
RefreshToken(a, iat) == <<"jwt", a, Typ(a), iat>>

\* an account that logged in at second 0, and an _id with no document
LoggedIn(a) == [stored |-> TRUE, refreshToken |-> RefreshToken(a, 0)]
NoAccount == [stored |-> FALSE, refreshToken |-> <<"null">>]

NoWrites == [p \in {} |-> 0]
NoApplied == [p \in Oids |-> 0]

\* quantity of each product when the requests arrive
InitialQuantity(p) ==
  CASE p = "aa" -> StockA
    [] p = "bb" -> StockB
    [] OTHER -> 1

\* name of each product when the requests arrive
ProductName(p) ==
  CASE p = "aa" -> "Apple"
    [] p = "bb" -> "Bread"
    [] OTHER -> "Coke"

IdleReq ==
  [pc |-> "idle", kind |-> "none", principal |-> Null, bodyStaff |-> Undefined,
   items |-> <<>>, merged |-> <<>>,
   staffId |-> Null, cashierType |-> "user", cashierUser |-> Null, cashierNameSnapshot |-> Null,
   transactionId |-> 0, idx |-> 0, attempts |-> 0,
   snap |-> <<>>, writes |-> NoWrites, productDoc |-> <<>>,
   saleInputs |-> <<>>, serverTotal |-> 0,
   expectedTotal |-> <<"undefined">>, validation |-> <<>>,
   params |-> <<>>, response |-> <<>>, view |-> "", pages |-> <<>>,
   started |-> 0, ended |-> 0,
   status |-> 0, message |-> "", details |-> <<>>, total |-> 0, itemsCount |-> 0,
   applied |-> NoApplied, short |-> FALSE]

Init ==
  /\ \E price \in InitialPrices :
       products =
         [p \in Oids |->
            CASE p = "aa" -> [store |-> "u1", quantity |-> InitialQuantity(p), price |-> price,
                              name |-> ProductName(p), costPrice |-> <<"num", 2>>]
              [] p = "bb" -> [store |-> "u1", quantity |-> InitialQuantity(p),
                              price |-> <<"num", 3>>,
                              name |-> ProductName(p), costPrice |-> <<"num", 2>>]
              [] OTHER    -> [store |-> "u2", quantity |-> InitialQuantity(p),
                              price |-> <<"num", 5>>,
                              name |-> ProductName(p), costPrice |-> <<"num", 2>>]]
  /\ sales = <<>>
  /\ req = [i \in ReqIds |-> IdleReq]
  /\ nextId = 0
  /\ updates = 0
  /\ accounts = [a \in AccountIds |-> IF a \in Principals THEN LoggedIn(a) ELSE NoAccount]
  /\ now = 0

\* ------------------------------------------------------- pure helpers

\* mutant: the filter asks for some stock, not for enough stock
MatchesSomeStock(doc, storeId, qty) == doc.store = storeId /\ doc.quantity >= 1

\* mutant: the reservation filter is not scoped to the caller's store
MatchesAnyStore(doc, storeId, qty) == doc.quantity >= qty

\* filter of Product.findOneAndUpdate: { _id, store: req.storeId, quantity: { $gte: qty } }
Matches(doc, storeId, qty) == doc.store = storeId /\ doc.quantity >= qty

\* mutant: the re-fetch is not scoped to the caller's store
ExistsAnyStore(doc, storeId) == TRUE

\* filter of Product.findOne: { _id, store: req.storeId }
Exists(doc, storeId) == doc.store = storeId

\* { $inc: { quantity: -qty } } with { new: true }
Decremented(doc, qty) == [doc EXCEPT !.quantity = @ - qty]

\* mutant: the line total forgets the quantity
TotalPriceOfOne(unitPrice, qty) == unitPrice

TotalPrice(unitPrice, qty) == unitPrice * qty

\* position of key k in the insertion-ordered Map acc, 0 when absent
MapIndex(acc, k) ==
  IF \E j \in 1..Len(acc) : acc[j][1] = k
    THEN CHOOSE j \in 1..Len(acc) : acc[j][1] = k
    ELSE 0

\* the merged Map of POST /checkout, keyed by String(item.product)
RECURSIVE MergeInto(_, _)
MergeInto(items, acc) ==
  IF items = <<>> THEN acc
  ELSE LET productId == Head(items)[1]
           qty == Head(items)[2]
           j == MapIndex(acc, productId)
       IN IF productId = "" \/ qty < 1
            THEN MergeInto(Tail(items), acc)
            ELSE IF j = 0
              THEN MergeInto(Tail(items), Append(acc, <<productId, qty>>))
              ELSE MergeInto(Tail(items), [acc EXCEPT ![j] = <<productId, acc[j][2] + qty>>])

\* mutant: the Map iterates from its newest key
MergedNewestFirst(items) ==
  LET acc == MergeInto(items, <<>>)
  IN [j \in 1..Len(acc) |-> acc[Len(acc) + 1 - j]]

Merged(items) == MergeInto(items, <<>>)

\* mutant: a staff caller's body may name the staff member
AttributionFromBody(principal, bodyStaff) ==
  IF Account[principal].userType = "staff"
    THEN [rejected |-> FALSE,
          staffId |-> IF Truthy(bodyStaff) THEN bodyStaff ELSE principal,
          cashierType |-> "staff",
          cashierUser |-> Null, cashierNameSnapshot |-> Account[principal].name]
    ELSE IF Truthy(bodyStaff)
      THEN [rejected |-> TRUE, staffId |-> Null, cashierType |-> "user",
            cashierUser |-> Null, cashierNameSnapshot |-> Null]
      ELSE [rejected |-> FALSE, staffId |-> Null, cashierType |-> "user",
            cashierUser |-> principal, cashierNameSnapshot |-> Account[principal].name]

\* mutant: an owner's sale fills the staff field too
AttributionBothFields(principal, bodyStaff) ==
  IF Account[principal].userType = "staff"
    THEN [rejected |-> FALSE, staffId |-> principal, cashierType |-> "staff",
          cashierUser |-> Null, cashierNameSnapshot |-> Account[principal].name]
    ELSE IF Truthy(bodyStaff)
      THEN [rejected |-> TRUE, staffId |-> Null, cashierType |-> "user",
            cashierUser |-> Null, cashierNameSnapshot |-> Null]
      ELSE [rejected |-> FALSE, staffId |-> principal, cashierType |-> "user",
            cashierUser |-> principal, cashierNameSnapshot |-> Account[principal].name]

\* cashier attribution of both entry points
Attribution(principal, bodyStaff) ==
  IF Account[principal].userType = "staff"
    THEN [rejected |-> FALSE, staffId |-> principal, cashierType |-> "staff",
          cashierUser |-> Null, cashierNameSnapshot |-> Account[principal].name]
    ELSE IF Truthy(bodyStaff)
      THEN [rejected |-> TRUE, staffId |-> Null, cashierType |-> "user",
            cashierUser |-> Null, cashierNameSnapshot |-> Null]
      ELSE [rejected |-> FALSE, staffId |-> Null, cashierType |-> "user",
            cashierUser |-> principal, cashierNameSnapshot |-> Account[principal].name]

\* mutant: the validation block takes the client's figure for the total
ValidationEchoesClient(clientExpectedTotal, serverTotal) ==
  LET clientExpectedNumber == Number(clientExpectedTotal)
      hasClientExpected == IsFinite(clientExpectedNumber)
  IN [clientExpectedTotal |->
        IF hasClientExpected THEN <<"num", clientExpectedNumber[1]>> ELSE <<"null">>,
      serverTotal |-> IF hasClientExpected THEN clientExpectedNumber[1] ELSE serverTotal,
      matches |-> IF hasClientExpected THEN <<"bool", TRUE>> ELSE <<"null">>]

\* the validation block of the checkout response
Validation(clientExpectedTotal, serverTotal) ==
  LET clientExpectedNumber == Number(clientExpectedTotal)
      hasClientExpected == IsFinite(clientExpectedNumber)
  IN [clientExpectedTotal |->
        IF hasClientExpected THEN <<"num", clientExpectedNumber[1]>> ELSE <<"null">>,
      serverTotal |-> serverTotal,
      matches |-> IF hasClientExpected
                    THEN <<"bool", clientExpectedNumber[1] = serverTotal>>
                    ELSE <<"null">>]

\* mutant: every line of a checkout mints an id of its own
SaleRowPerLine(r, i, product, unitPrice, qty) ==
  [transactionId |-> r.transactionId * 10 + r.idx, product |-> product,
   unitPrice |-> unitPrice,
   staff |-> r.staffId, cashierType |-> r.cashierType, cashierUser |-> r.cashierUser,
   cashierNameSnapshot |-> r.cashierNameSnapshot,
   quantity |-> qty, totalPrice |-> TotalPrice(unitPrice, qty),
   store |-> Account[r.principal].storeId, by |-> i]

\* the document a Sale row is built from (both entry points)
SaleRow(r, i, product, unitPrice, qty) ==
  [transactionId |-> r.transactionId, product |-> product, unitPrice |-> unitPrice,
   staff |-> r.staffId, cashierType |-> r.cashierType, cashierUser |-> r.cashierUser,
   cashierNameSnapshot |-> r.cashierNameSnapshot,
   quantity |-> qty, totalPrice |-> TotalPrice(unitPrice, qty),
   store |-> Account[r.principal].storeId, by |-> i]

\* the snapshot fields of a Sale row, taken from the document the decrement returned
Snapshots(productDoc) ==
  LET unitCostCandidate == Number(productDoc.costPrice)
  IN [productNameSnapshot |-> productDoc.name,
      unitCostPrice |-> IF IsFinite(unitCostCandidate)
                          THEN <<"num", unitCostCandidate[1]>>
                          ELSE <<"null">>]

\* mutant: new documents take the place of the oldest rows
InsertedOver(ledger, docs) ==
  [n \in 1..Len(docs) |->
     docs[n] @@ [_id |-> 10 + Len(ledger) + n, createdAt |-> Len(ledger) + 1]]
    \o SubSeq(ledger, Len(docs) + 1, Len(ledger))

\* Sale.create / Sale.insertMany: the ledger with the new documents appended, each
\* with an _id of its own and the createdAt of the insert
Inserted(ledger, docs) ==
  ledger \o [n \in 1..Len(docs) |->
               docs[n] @@ [_id |-> 10 + Len(ledger) + n, createdAt |-> Len(ledger) + 1]]

\* res.status(...).json(...): the handler is over, its locals are gone
Respond(r, status, message, details) ==
  [r EXCEPT !.pc = "done", !.status = status, !.message = message, !.details = details,
            !.snap = <<>>, !.writes = NoWrites, !.productDoc = <<>>, !.saleInputs = <<>>,
            !.idx = 0]

\* what request i has taken out of each product's committed quantity so far
Charge(i, newProducts) ==
  [p \in Oids |-> req[i].applied[p] + products[p].quantity - newProducts[p].quantity]

\* the document is held by a running transaction other than request i's
Locked(p, i) ==
  \E j \in ReqIds : j # i /\ req[j].pc = "txn" /\ p \in DOMAIN req[j].writes

\* requests are numbered in order of arrival
MayStart(i) == req[i].pc = "idle" /\ \A j \in ReqIds : j < i => req[j].pc # "idle"

\* ------------------------------------------------ POST /sales (single sale)

\* validators, attribution; the body is { product, quantity, staff? }
SaleHandler(i, principal, body) ==
  LET a == Attribution(principal, body.staff)
      r == [req[i] EXCEPT !.kind = "sale", !.principal = principal,
                          !.bodyStaff = body.staff, !.items = body.items,
                          !.staffId = a.staffId, !.cashierType = a.cashierType,
                          !.cashierUser = a.cashierUser,
                          !.cashierNameSnapshot = a.cashierNameSnapshot]
  IN req' = [req EXCEPT ![i] =
               IF a.rejected
                 THEN Respond(r, 400, "Validation error", [path |-> "staff"])
                 ELSE [r EXCEPT !.pc = "reserve"]]

\* POST /sales with a body that passes the validators
StartSale(i) ==
  /\ MayStart(i)
  /\ \E principal \in Principals, body \in SaleBodies : SaleHandler(i, principal, body)
  /\ UNCHANGED <<products, sales, nextId, updates, accounts, now>>

\* Product.findOneAndUpdate(...), then the price check on the returned document
SaleReserve(i) ==
  /\ req[i].pc = "reserve"
  /\ LET r == req[i]
         product == r.items[1][1]
         quantity == r.items[1][2]
         oid == ToObjectId(product)
         storeId == Account[r.principal].storeId
     IN IF Matches(products[oid], storeId, quantity)
          THEN /\ ~Locked(oid, i)
               /\ LET productDoc == Decremented(products[oid], quantity)
                      newProducts == [products EXCEPT ![oid] = productDoc]
                      unitPrice == Number(productDoc.price)
                      charged == [r EXCEPT !.applied = Charge(i, newProducts)]
                  IN /\ products' = newProducts
                     /\ IF ~IsFinite(unitPrice)
                          THEN /\ req' = [req EXCEPT ![i] =
                                    Respond(charged, 400, "Invalid product pricing",
                                            [productId |-> product, field |-> "price",
                                             value |-> productDoc.price])]
                               /\ nextId' = nextId
                          ELSE /\ req' = [req EXCEPT ![i] =
                                    [charged EXCEPT !.pc = "create",
                                                    !.productDoc = productDoc,
                                                    !.transactionId = nextId + 1]]
                               /\ nextId' = nextId + 1
          ELSE /\ req' = [req EXCEPT ![i] =
                    [r EXCEPT !.pc = "classify",
                              !.short = Exists(products[oid], storeId)]]
               /\ UNCHANGED <<products, nextId, accounts, now>>
  /\ UNCHANGED <<sales, updates, accounts, now>>

\* productDoc was null: Product.findOne(...) tells NotFound from InsufficientStock
SaleClassify(i) ==
  /\ req[i].pc = "classify"
  /\ LET r == req[i]
         product == r.items[1][1]
         quantity == r.items[1][2]
         storeId == Account[r.principal].storeId
         existing == products[ToObjectId(product)]
     IN req' = [req EXCEPT ![i] =
                  IF ~Exists(existing, storeId)
                    THEN Respond(r, 404, "Product not found in this store",
                                 [productId |-> product, storeId |-> storeId])
                    ELSE Respond(r, 400, "Insufficient stock",
                                 [productId |-> product, available |-> existing.quantity,
                                  requested |-> quantity])]
  /\ UNCHANGED <<products, sales, nextId, updates, accounts, now>>

\* Sale.create(...) and the 201 response
SaleCreate(i) ==
  /\ req[i].pc = "create"
  /\ LET r == req[i]
         product == r.items[1][1]
         quantity == r.items[1][2]
         unitPrice == Number(r.productDoc.price)[1]
         sale == SaleRow(r, i, ToObjectId(product), unitPrice, quantity)
                   @@ Snapshots(r.productDoc)
     IN /\ sales' = Inserted(sales, <<sale>>)
        /\ req' = [req EXCEPT ![i] =
                     [Respond(r, 201, "", <<>>) EXCEPT !.total = sale.totalPrice,
                                                       !.itemsCount = 1]]
  /\ UNCHANGED <<products, nextId, updates, accounts, now>>

\* --------------------------------------------- POST /sales/checkout

\* const session = await mongoose.startSession()
StartSession(r) == [r EXCEPT !.started = @ + 1]

\* mutant: the session is never ended
EndSessionNever(r) == r

\* finally { session.endSession() }
EndSession(r) == [r EXCEPT !.ended = @ + 1]

\* validators, merge of duplicate lines, attribution, transactionId
CheckoutHandler(i, principal, body) ==
  LET merged == Merged(body.items)
      a == Attribution(principal, body.staff)
      r == StartSession(
             [req[i] EXCEPT !.kind = "checkout", !.principal = principal,
                            !.bodyStaff = body.staff, !.items = body.items,
                            !.expectedTotal = body.expectedTotal,
                            !.merged = merged,
                            !.staffId = a.staffId, !.cashierType = a.cashierType,
                            !.cashierUser = a.cashierUser,
                            !.cashierNameSnapshot = a.cashierNameSnapshot])
  IN IF Len(merged) = 0
       THEN /\ req' = [req EXCEPT ![i] =
                 EndSession(Respond(r, 400, "Validation error", [path |-> "items"]))]
            /\ nextId' = nextId
       ELSE IF a.rejected
         THEN /\ req' = [req EXCEPT ![i] =
                   EndSession(Respond(r, 400, "Validation error", [path |-> "staff"]))]
              /\ nextId' = nextId
         ELSE /\ req' = [req EXCEPT ![i] =
                   [r EXCEPT !.pc = "txn", !.idx = 1, !.attempts = 1,
                             !.transactionId = nextId + 1]]
              /\ nextId' = nextId + 1

\* POST /sales/checkout with a body that passes the validators
StartCheckout(i) ==
  /\ MayStart(i)
  /\ \E principal \in Principals, body \in CheckoutBodies :
       CheckoutHandler(i, principal, body)
  /\ UNCHANGED <<products, sales, updates, accounts, now>>

\* the snapshot the running attempt of request i reads from: taken at its first operation
Snapshot(i) == IF req[i].idx = 1 THEN products ELSE req[i].snap

\* a document as the transaction of request i sees it: its own writes over its snapshot
View(i, p) == IF p \in DOMAIN req[i].writes THEN req[i].writes[p] ELSE Snapshot(i)[p]

\* the line's findOneAndUpdate matches a document that changed since the snapshot
\* or is held by another transaction: the server answers WriteConflict
WriteConflict(i) ==
  LET r == req[i]
      oid == ToObjectId(r.merged[r.idx][1])
  IN /\ Matches(View(i, oid), Account[r.principal].storeId, r.merged[r.idx][2])
     /\ \/ Locked(oid, i)
        \/ oid \notin DOMAIN r.writes /\ products[oid] # Snapshot(i)[oid]

\* mutant: the decrements were not made under the session, an abort leaves them in place
AbortKeepsWrites(i) ==
  [p \in Oids |-> IF p \in DOMAIN req[i].writes THEN req[i].writes[p] ELSE products[p]]

\* committed Product documents after the transaction of request i is aborted
AbortTransaction(i) == products

\* committed Product documents after the transaction of request i commits
CommitTransaction(i) ==
  [p \in Oids |-> IF p \in DOMAIN req[i].writes THEN req[i].writes[p] ELSE products[p]]

\* one iteration of the for loop inside session.withTransaction
CheckoutLine(i) ==
  /\ req[i].pc = "txn"
  /\ req[i].idx <= Len(req[i].merged)
  /\ ~WriteConflict(i)
  /\ LET r == req[i]
         productId == r.merged[r.idx][1]
         qty == r.merged[r.idx][2]
         oid == ToObjectId(productId)
         storeId == Account[r.principal].storeId
         doc == View(i, oid)
     IN IF Matches(doc, storeId, qty)
          THEN LET productDoc == Decremented(doc, qty)
                   unitPrice == Number(productDoc.price)
               IN IF ~IsFinite(unitPrice)
                    THEN /\ products' = AbortTransaction(i)
                         /\ req' = [req EXCEPT ![i] =
                              [EndSession(Respond(r, 400, "Invalid product pricing",
                                                  [productId |-> productId,
                                                   field |-> "price",
                                                   value |-> productDoc.price]))
                                 EXCEPT !.applied = Charge(i, AbortTransaction(i))]]
                    ELSE /\ products' = products
                         /\ req' = [req EXCEPT ![i] =
                              [r EXCEPT !.snap = Snapshot(i),
                                        !.writes = [p \in DOMAIN r.writes \cup {oid} |->
                                                      IF p = oid THEN productDoc
                                                                 ELSE r.writes[p]],
                                        !.saleInputs =
                                           Append(@, SaleRow(r, i, oid, unitPrice[1], qty)
                                                       @@ Snapshots(productDoc)),
                                        !.serverTotal = @ + TotalPrice(unitPrice[1], qty),
                                        !.idx = @ + 1]]
          ELSE /\ products' = AbortTransaction(i)
               /\ req' = [req EXCEPT ![i] =
                    [EndSession(
                       IF ~Exists(doc, storeId)
                         THEN Respond(r, 404, "Product not found in this store",
                                      [productId |-> productId, storeId |-> storeId])
                         ELSE Respond(r, 400, "Insufficient stock",
                                      [productId |-> productId, available |-> doc.quantity,
                                       requested |-> qty]))
                       EXCEPT !.applied = Charge(i, AbortTransaction(i)),
                              !.short = Exists(doc, storeId)]]
  /\ UNCHANGED <<sales, nextId, updates, accounts, now>>

\* WriteConflict carries TransientTransactionError: the driver aborts the attempt and
\* calls the callback again; serverTotal and saleInputs live outside the callback
CheckoutRetry(i) ==
  /\ req[i].pc = "txn"
  /\ req[i].idx <= Len(req[i].merged)
  /\ req[i].attempts < MaxAttempts
  /\ WriteConflict(i)
  /\ products' = AbortTransaction(i)
  /\ req' = [req EXCEPT ![i] =
               [@ EXCEPT !.idx = 1, !.attempts = @ + 1, !.snap = <<>>,
                         !.writes = NoWrites,
                         !.applied = Charge(i, AbortTransaction(i))]]
  /\ UNCHANGED <<sales, nextId, updates, accounts, now>>

\* Sale.insertMany(saleInputs, { session }), commit, and the 201 response
CheckoutCommit(i) ==
  /\ req[i].pc = "txn"
  /\ req[i].idx > Len(req[i].merged)
  /\ LET r == req[i]
     IN /\ products' = CommitTransaction(i)
        /\ sales' = Inserted(sales, r.saleInputs)
        /\ req' = [req EXCEPT ![i] =
                     [EndSession(Respond(r, 201, "", <<>>))
                        EXCEPT !.total = r.serverTotal, !.itemsCount = Len(r.merged),
                               !.validation = Validation(r.expectedTotal, r.serverTotal),
                               !.applied = Charge(i, CommitTransaction(i))]]
  /\ UNCHANGED <<nextId, updates, accounts, now>>

\* ------------------------------------------------- PUT /products/:id

\* bodies that set one field: { price }, { price: null }, { $unset: { price } }, { quantity }
UpdateBodies ==
  {[field |-> "price", value |-> v] : v \in PriceValues}
    \cup {[field |-> "quantity", value |-> q] : q \in 0..MaxQty}

\* Product.findOneAndUpdate({ _id, store: req.storeId }, req.body) by an admin/manager
ProductUpdate ==
  /\ updates < MaxUpdates
  /\ \E principal \in {p \in Principals : Account[p].role \in {"admin", "manager"}},
        id \in IdStrings, body \in UpdateBodies :
       LET oid == ToObjectId(id)
       IN /\ Exists(products[oid], Account[principal].storeId)
          /\ ~Locked(oid, 0)
          /\ products' = [products EXCEPT ![oid] =
                            IF body.field = "price"
                              THEN [@ EXCEPT !.price = body.value]
                              ELSE [@ EXCEPT !.quantity = body.value]]
  /\ updates' = updates + 1
  /\ UNCHANGED <<sales, req, nextId, accounts, now>>

\* ------------------------------------------------------ specifications

SaleStep ==
  \E i \in ReqIds :
    \/ StartSale(i)
    \/ SaleReserve(i)
    \/ SaleClassify(i)
    \/ SaleCreate(i)
    \/ StartCheckout(i)
    \/ CheckoutLine(i)
    \/ CheckoutRetry(i)
    \/ CheckoutCommit(i)

Next == SaleStep

\* concurrent sales and checkouts against the initial catalog
Spec == Init /\ [][Next]_vars

\* the same, with concurrent catalog edits
CatalogSpec == Init /\ [][Next \/ ProductUpdate]_vars

\* bodies of the calls that race a catalog edit: the owner sells one unit of "aa",
\* alone or after one unit of "bb"
RacingItemLists == {<< <<"aa", 1>> >>, << <<"bb", 1>>, <<"aa", 1>> >>}
RacingCalls ==
  \A i \in ReqIds :
    req[i].pc # "idle" =>
      /\ req[i].principal = "u1"
      /\ req[i].bodyStaff = Undefined
      /\ req[i].expectedTotal = <<"undefined">>
      /\ req[i].items \in RacingItemLists

\* those sales and checkouts, concurrent with catalog edits
PriceNext ==
  \/ \E i \in ReqIds :
       \/ StartSale(i) /\ RacingCalls'
       \/ SaleReserve(i)
       \/ SaleClassify(i)
       \/ SaleCreate(i)
       \/ StartCheckout(i) /\ RacingCalls'
       \/ CheckoutLine(i)
       \/ CheckoutRetry(i)
       \/ CheckoutCommit(i)
  \/ ProductUpdate
PriceSpec == Init /\ [][PriceNext]_vars

\* ------------------------------------------------ reads of the Sale ledger

\* transactionId of a row stored before transaction grouping existed: the field is absent
NoTransaction == 0

\* the transactions of the ledger the reads run against, with the cashier of each:
\* staff s1, staff s2, the owner, the owner of another store; and rows without
\* transactionId recorded by s1 under the first Sale schema
Cashiers ==
  {[transactionId |-> 1, staff |-> "s1", cashierType |-> "staff", cashierUser |-> Null,
    cashierNameSnapshot |-> "Sam", store |-> "u1"],
   [transactionId |-> 2, staff |-> "s2", cashierType |-> "staff", cashierUser |-> Null,
    cashierNameSnapshot |-> "Sue", store |-> "u1"],
   [transactionId |-> 3, staff |-> Null, cashierType |-> "user", cashierUser |-> "u1",
    cashierNameSnapshot |-> "Owner", store |-> "u1"],
   [transactionId |-> 4, staff |-> Null, cashierType |-> "user", cashierUser |-> "u2",
    cashierNameSnapshot |-> "Other", store |-> "u2"],
   [transactionId |-> NoTransaction, staff |-> "s1", cashierType |-> "staff",
    cashierUser |-> Null, cashierNameSnapshot |-> Null, store |-> "u1"]}

\* timestamps: one tick per row, or rows created in pairs within one millisecond
Clocks == {"strict", "paired"}
CreatedAt(clock, k) == IF clock = "strict" THEN k ELSE (k + 1) \div 2

\* the k-th stored Sale document: _id and createdAt are set by the store
StoredSale(c, k, clock) ==
  [_id |-> 10 + k, transactionId |-> c.transactionId, product |-> "aa", unitPrice |-> 5,
   staff |-> c.staff, cashierType |-> c.cashierType, cashierUser |-> c.cashierUser,
   cashierNameSnapshot |-> c.cashierNameSnapshot,
   quantity |-> k, totalPrice |-> TotalPrice(5, k),
   productNameSnapshot |-> ProductName("aa"), unitCostPrice |-> <<"num", 2>>,
   store |-> c.store, by |-> 0, createdAt |-> CreatedAt(clock, k)]

Ledgers ==
  UNION {{[k \in 1..n |-> StoredSale(f[k], k, clock)] : f \in [1..n -> Cashiers]} :
           n \in 0..MaxRows, clock \in Clocks}

\* the catalog and a ledger of earlier sales, no request yet
ReadInit ==
  /\ products = [p \in Oids |->
                   [store |-> IF p = "cc" THEN "u2" ELSE "u1",
                    quantity |-> InitialQuantity(p), price |-> <<"num", 5>>,
                    name |-> ProductName(p), costPrice |-> <<"num", 2>>]]
  /\ sales \in Ledgers
  /\ req = [i \in ReqIds |-> IdleReq]
  /\ nextId = 4
  /\ updates = 0
  /\ accounts = [a \in AccountIds |-> LoggedIn(a)]
  /\ now = 0

\* values of the staff query parameter: absent, a staff id, not an id
StaffParams == {Undefined, "s2", "zz"}
\* values of the :transactionId path parameter: ids of transactions, ids of rows, not an id
IdParams == {<<"oid", n>> : n \in {1, 2, 4, 11, 12}} \cup {<<"bad">>}

\* mongoose.isValidObjectId, of a path parameter and of a staff parameter
IsValidObjectId(v) == v[1] = "oid"
IsValidStaffId(v) == v \in {"s1", "s2"}

\* res.status(...).json(...) of a read
Reply(r, status, message, response) ==
  [r EXCEPT !.pc = "done", !.status = status, !.message = message, !.response = response]

\* the elements of S in ascending order of key
RECURSIVE SortByKey(_, _)
SortByKey(S, key) ==
  IF S = {} THEN <<>>
  ELSE LET x == CHOOSE x \in S : \A y \in S : key[x] <= key[y]
       IN <<x>> \o SortByKey(S \ {x}, key)

\* sum of f over S
RECURSIVE SumOf(_, _)
SumOf(S, f) ==
  IF S = {} THEN 0
  ELSE LET x == CHOOSE x \in S : TRUE IN f[x] + SumOf(S \ {x}, f)

Least(S) == CHOOSE x \in S : \A y \in S : x <= y
Greatest(S) == CHOOSE x \in S : \A y \in S : x >= y

\* mutant: a staff caller's staff parameter is honoured
ScopedStaffFromQuery(principal, staff) ==
  IF Truthy(staff) THEN staff
  ELSE IF Account[principal].userType = "staff" THEN principal
  ELSE Undefined

\* role scoping of GET / and GET /transactions: the value query.staff is set to, if any
ScopedStaff(principal, staff) ==
  IF Account[principal].userType = "staff" THEN principal
  ELSE IF Account[principal].role \in {"admin", "manager"} /\ Truthy(staff) THEN staff
  ELSE Undefined

\* Sale.find({ store, staff? }): positions of the matching rows
FindSales(storeId, staff) ==
  {k \in 1..Len(sales) :
     sales[k].store = storeId /\ (staff # Undefined => sales[k].staff = staff)}

\* GET /sales with default sort (-createdAt, then -_id), page and limit
GetSales(i) ==
  /\ MayStart(i)
  /\ \E principal \in Principals, staff \in StaffParams :
       LET r == [req[i] EXCEPT !.kind = "list", !.principal = principal,
                               !.params = [staff |-> staff]]
           scoped == ScopedStaff(principal, staff)
           found == FindSales(Account[principal].storeId, scoped)
           data == SortByKey(found,
                             [k \in found |-> 0 - (sales[k].createdAt * 100 + sales[k]._id)])
       IN req' = [req EXCEPT ![i] =
                    IF scoped # Undefined /\ ~IsValidStaffId(scoped)
                      THEN Reply(r, 500, "Cast to ObjectId failed", <<>>)
                      ELSE Reply(r, 200, "",
                                 [data |-> [n \in 1..Len(data) |-> sales[data[n]]],
                                  meta |-> [total |-> Cardinality(found), limit |-> 50,
                                            page |-> 1, nextCursor |-> Null]])]
  /\ UNCHANGED <<products, sales, nextId, updates, accounts, now>>

\* $ifNull / ||: the value, or the fallback when the field is absent
IfNull(v, fallback) == IF v = NoTransaction THEN fallback ELSE v

\* mutant: the stored transactionId is the key, absent or not
TxKeyStored(sale) == sale.transactionId

\* txId of the pipeline, txKey of the detail and receipt handlers
TxKey(sale) == IfNull(sale.transactionId, sale._id)

\* mutant: newest first by the first row of each group
SummaryOrderByFirst(t) == 0 - (t.createdAt * 100 + t.id)

\* $sort: { lastCreatedAt: -1, _id: -1 }
SummaryOrder(t) == 0 - (t.lastCreatedAt * 100 + t.id)

\* name of a staff member in the Staff collection, by $lookup or populate
StaffName(staff) ==
  CASE staff = "s1" -> "Sam"
    [] staff = "s2" -> "Sue"
    [] OTHER -> Null

\* the name snapshot of the row, else the staff member's name
CashierName(cashierNameSnapshot, staff) ==
  IF cashierNameSnapshot # Null THEN cashierNameSnapshot ELSE StaffName(staff)

\* $group of the rows found with key t ($first takes the attribution of a row of the group)
Summary(found, t) ==
  LET group == {k \in found : TxKey(sales[k]) = t}
      first == sales[Least(group)]
  IN [id |-> t, staff |-> first.staff, cashierType |-> first.cashierType,
      cashierUser |-> first.cashierUser,
      cashierName |-> CashierName(first.cashierNameSnapshot, first.staff),
      createdAt |-> Least({sales[k].createdAt : k \in group}),
      lastCreatedAt |-> Greatest({sales[k].createdAt : k \in group}),
      total |-> SumOf(group, [k \in group |-> sales[k].totalPrice]),
      itemsCount |-> Cardinality(group),
      totalQuantity |-> SumOf(group, [k \in group |-> sales[k].quantity])]

\* the sorted summaries of the rows found
Summaries(found) ==
  LET groups == {Summary(found, t) : t \in {TxKey(sales[k]) : k \in found}}
  IN SortByKey(groups, [t \in groups |-> SummaryOrder(t)])

\* GET /sales/transactions with default page and limit
GetTransactions(i) ==
  /\ MayStart(i)
  /\ \E principal \in Principals, staff \in StaffParams :
       LET r == [req[i] EXCEPT !.kind = "transactions", !.principal = principal,
                               !.params = [staff |-> staff]]
           scoped == ScopedStaff(principal, staff)
           found == FindSales(Account[principal].storeId, scoped)
           data == Summaries(found)
       IN req' = [req EXCEPT ![i] =
                    IF scoped # Undefined /\ ~IsValidStaffId(scoped)
                      THEN Reply(r, 400, "staff must be a valid id", <<>>)
                      ELSE Reply(r, 200, "",
                                 [data |-> data,
                                  meta |-> [total |-> Len(data), limit |-> 50,
                                            page |-> 1]])]
  /\ UNCHANGED <<products, sales, nextId, updates, accounts, now>>

\* mutant: the lookup by id is scoped to the tenant only
TransactionRowsOfStore(principal, oid) ==
  {k \in 1..Len(sales) :
     /\ sales[k].store = Account[principal].storeId
     /\ sales[k].transactionId = oid \/ sales[k]._id = oid}

\* Sale.find({ store, $or: [{ transactionId: oid }, { _id: oid }], staff? })
TransactionRows(principal, oid) ==
  {k \in 1..Len(sales) :
     /\ sales[k].store = Account[principal].storeId
     /\ sales[k].transactionId = oid \/ sales[k]._id = oid
     /\ Account[principal].userType = "staff" => sales[k].staff = principal}

\* .sort({ createdAt: 1 }): any order of the rows found that agrees with createdAt
SortedByCreatedAt(found) ==
  {o \in [1..Cardinality(found) -> found] :
     /\ \A a, b \in DOMAIN o : a # b => o[a] # o[b]
     /\ \A a, b \in DOMAIN o : a < b => sales[o[a]].createdAt <= sales[o[b]].createdAt}

\* the transaction header both lookups build from the sorted rows
Header(rows) ==
  LET first == rows[1]
  IN [id |-> TxKey(first), staff |-> first.staff,
      cashierType |-> first.cashierType, cashierUser |-> first.cashierUser,
      cashierName |-> CashierName(first.cashierNameSnapshot, first.staff),
      itemsCount |-> Len(rows),
      totalQuantity |-> SumOf(DOMAIN rows, [n \in DOMAIN rows |-> rows[n].quantity]),
      total |-> SumOf(DOMAIN rows, [n \in DOMAIN rows |-> rows[n].totalPrice]),
      createdAt |-> first.createdAt, lastCreatedAt |-> rows[Len(rows)].createdAt]

\* a line of the receipt; populate("product") reads the catalog as it is now
LineItem(sale) ==
  [saleId |-> sale._id, productId |-> sale.product,
   name |-> IF sale.productNameSnapshot \notin {Null, Undefined, ""}
              THEN sale.productNameSnapshot
              ELSE products[sale.product].name,
   unitPrice |-> sale.unitPrice,
   quantity |-> sale.quantity, total |-> sale.totalPrice]

\* mutant: the receipt total adds up unit prices
ReceiptHeaderOfUnitPrices(rows) ==
  LET lineItems == [n \in DOMAIN rows |-> LineItem(rows[n])]
  IN [Header(rows) EXCEPT
        !.itemsCount = Len(lineItems),
        !.totalQuantity = SumOf(DOMAIN lineItems,
                                [n \in DOMAIN lineItems |-> lineItems[n].quantity]),
        !.total = SumOf(DOMAIN lineItems,
                        [n \in DOMAIN lineItems |-> lineItems[n].unitPrice])]

\* the receipt's header: counts and totals recomputed from the flattened lines
ReceiptHeader(rows) ==
  LET lineItems == [n \in DOMAIN rows |-> LineItem(rows[n])]
  IN [Header(rows) EXCEPT
        !.itemsCount = Len(lineItems),
        !.totalQuantity = SumOf(DOMAIN lineItems,
                                [n \in DOMAIN lineItems |-> lineItems[n].quantity]),
        !.total = SumOf(DOMAIN lineItems,
                        [n \in DOMAIN lineItems |-> lineItems[n].total])]

\* the body of a detail or receipt response for the rows found, in sorted order
LookupBody(kind, rows) ==
  [transaction |-> IF kind = "receipt" THEN ReceiptHeader(rows) ELSE Header(rows),
   sales |-> IF kind = "detail" THEN rows ELSE <<>>,
   items |-> IF kind = "receipt" THEN [n \in DOMAIN rows |-> LineItem(rows[n])] ELSE <<>>]

\* GET /sales/transactions/:transactionId and .../receipt
Lookup(i, kind) ==
  /\ MayStart(i)
  /\ \E principal \in Principals, id \in IdParams :
       LET r == [req[i] EXCEPT !.kind = kind, !.principal = principal,
                               !.params = [transactionId |-> id]]
       IN IF ~IsValidObjectId(id)
            THEN req' = [req EXCEPT ![i] = Reply(r, 400, "Validation error", <<>>)]
            ELSE LET found == TransactionRows(principal, id[2])
                 IN IF found = {}
                      THEN req' = [req EXCEPT ![i] =
                                     Reply(r, 404, "Transaction not found", <<>>)]
                      ELSE \E o \in SortedByCreatedAt(found) :
                             LET rows == [n \in DOMAIN o |-> sales[o[n]]]
                             IN req' = [req EXCEPT ![i] =
                                  Reply(r, 200, "", LookupBody(kind, rows))]
  /\ UNCHANGED <<products, sales, nextId, updates, accounts, now>>

GetTransaction(i) == Lookup(i, "detail")
GetReceipt(i) == Lookup(i, "receipt")

\* reads change nothing, so one reader shows all a read can return
Readers == {1}

ReadNext ==
  \E i \in Readers :
    \/ GetSales(i)
    \/ GetTransactions(i)
    \/ GetTransaction(i)
    \/ GetReceipt(i)

\* one read of a ledger of earlier sales
ReadSpec == ReadInit /\ [][ReadNext]_vars

\* ------------------------------------------- pagination of the lists

\* query-string values of limit and page: absent, a decimal integer, other text
Absent == <<"undefined">>
LimitParams == {Absent, <<"int", 0>>, <<"int", -5>>, <<"text">>, <<"int", 1>>,
                <<"int", 2>>, <<"int", 500>>}
PageParams == {Absent, <<"int", 0>>, <<"text">>, <<"int", 2>>}

\* parseInt(v, 10) of a query-string value
ParseInt(v) == IF v[1] = "int" THEN <<v[2]>> ELSE NaN

\* a || b on numbers: 0 and NaN are falsy
OrElse(n, fallback) == IF n = NaN \/ n = <<0>> THEN fallback ELSE n[1]

Min(a, b) == IF a <= b THEN a ELSE b
Max(a, b) == IF a >= b THEN a ELSE b

\* mutant: the limit is taken as parsed
ParsedLimitUnclamped(limit) ==
  OrElse(ParseInt(IF limit = Absent THEN <<"int", 50>> ELSE limit), 50)

\* Math.min(Math.max(parseInt(limit ?? "50", 10) || 50, 1), 200)
ParsedLimit(limit) ==
  Min(Max(OrElse(ParseInt(IF limit = Absent THEN <<"int", 50>> ELSE limit), 50), 1), 200)

\* Math.max(parseInt(page ?? "1", 10) || 1, 1)
ParsedPage(page) ==
  Max(OrElse(ParseInt(IF page = Absent THEN <<"int", 1>> ELSE page), 1), 1)

\* values of the sort parameter
SortParams == {Undefined, "createdAt", "-createdAt", "-totalPrice", "name"}
SortParam(sort) == IF sort = Undefined THEN "-createdAt" ELSE sort
SortDir(sortParam) == IF sortParam \in {"-createdAt", "-totalPrice"} THEN -1 ELSE 1
SortField(sortParam) ==
  CASE sortParam = "-createdAt" -> "createdAt"
    [] sortParam = "-totalPrice" -> "totalPrice"
    [] OTHER -> sortParam
EffectiveSortField(sortField) ==
  IF sortField \in {"createdAt", "totalPrice", "quantity"} THEN sortField ELSE "createdAt"

\* values of cursor, startDate and endDate: absent, an ISO date-time, other text
CursorParams == {Absent, <<"date", 1>>, <<"date", 2>>, <<"text">>}
DateParams == {Absent, <<"date", 2>>}

\* the date range of the query, when given
InRange(createdAt, startDate, endDate) ==
  /\ startDate # Absent => createdAt >= startDate[2]
  /\ endDate # Absent => createdAt <= endDate[2]

\* mutant: the cursor's own instant is part of the next page
AtOrBeyondCursor(createdAt, cursor, sortDir) ==
  cursor[1] = "date" =>
    IF sortDir = -1 THEN createdAt <= cursor[2] ELSE createdAt >= cursor[2]

\* $lt / $gt of a cursor that parses as a date; any other cursor adds no condition
BeyondCursor(createdAt, cursor, sortDir) ==
  cursor[1] = "date" =>
    IF sortDir = -1 THEN createdAt < cursor[2] ELSE createdAt > cursor[2]

\* the first n elements of a sequence
Slice(seq, from, n) ==
  IF from > Len(seq) THEN <<>> ELSE SubSeq(seq, from, Min(from + n - 1, Len(seq)))

\* the query, the sort, the page and the meta block of GET /sales
SalesPage(principal, q) ==
  LET parsedLimit == ParsedLimit(q.limit)
      parsedPage == ParsedPage(q.page)
      sortDir == SortDir(SortParam(q.sort))
      effectiveSortField == EffectiveSortField(SortField(SortParam(q.sort)))
      byCursor == q.cursor # Absent /\ effectiveSortField = "createdAt"
      found == {k \in FindSales(Account[principal].storeId,
                                ScopedStaff(principal, Undefined)) :
                  /\ InRange(sales[k].createdAt, q.startDate, q.endDate)
                  /\ byCursor => BeyondCursor(sales[k].createdAt, q.cursor, sortDir)}
      field == [k \in found |->
                  CASE effectiveSortField = "createdAt" -> sales[k].createdAt
                    [] effectiveSortField = "totalPrice" -> sales[k].totalPrice
                    [] OTHER -> sales[k].quantity]
      sorted == SortByKey(found,
                          [k \in found |-> sortDir * (field[k] * 100 + sales[k]._id)])
      results == IF byCursor
                   THEN Slice(sorted, 1, parsedLimit + 1)
                   ELSE Slice(sorted, (parsedPage - 1) * parsedLimit + 1, parsedLimit)
      more == byCursor /\ Len(results) > parsedLimit
      data == IF more THEN Slice(results, 1, parsedLimit) ELSE results
  IN [data |-> [n \in DOMAIN data |-> sales[data[n]]],
      meta |-> [total |-> Cardinality(found), limit |-> parsedLimit,
                page |-> IF q.cursor # Absent THEN <<"null">>
                         ELSE <<"num", parsedPage>>,
                nextCursor |->
                  IF more
                    THEN <<"date", sales[data[Len(data)]].createdAt>>
                    ELSE <<"null">>]]

\* GET /sales
ListSales(i) ==
  /\ MayStart(i)
  /\ \E principal \in Principals, limit \in LimitParams, page \in PageParams,
        sort \in SortParams, cursor \in CursorParams,
        startDate \in DateParams, endDate \in DateParams :
       LET r == [req[i] EXCEPT !.kind = "list", !.principal = principal,
                               !.params = [staff |-> Undefined, limit |-> limit,
                                           page |-> page, sort |-> sort, cursor |-> cursor,
                                           startDate |-> startDate, endDate |-> endDate]]
       IN req' = [req EXCEPT ![i] = Reply(r, 200, "", SalesPage(principal, r.params))]
  /\ UNCHANGED <<products, sales, nextId, updates, accounts, now>>

\* GET /sales/transactions
ListTransactions(i) ==
  /\ MayStart(i)
  /\ \E principal \in Principals, limit \in LimitParams, page \in PageParams,
        startDate \in DateParams, endDate \in DateParams :
       LET r == [req[i] EXCEPT !.kind = "transactions", !.principal = principal,
                               !.params = [staff |-> Undefined, limit |-> limit,
                                           page |-> page,
                                           startDate |-> startDate, endDate |-> endDate]]
           parsedLimit == ParsedLimit(limit)
           parsedPage == ParsedPage(page)
           found == {k \in FindSales(Account[principal].storeId,
                                     ScopedStaff(principal, Undefined)) :
                       InRange(sales[k].createdAt, startDate, endDate)}
           groups == Summaries(found)
       IN req' = [req EXCEPT ![i] =
                    Reply(r, 200, "",
                          [data |-> Slice(groups, (parsedPage - 1) * parsedLimit + 1,
                                          parsedLimit),
                           meta |-> [total |-> Len(groups), limit |-> parsedLimit,
                                     page |-> <<"num", parsedPage>>]])]
  /\ UNCHANGED <<products, sales, nextId, updates, accounts, now>>

\* ledgers of three rows of one store, recorded by a staff member and by the owner
PageLedgers ==
  {l \in Ledgers : Len(l) = MaxRows /\ \A k \in DOMAIN l : l[k].transactionId \in {1, 3}}

PageInit ==
  /\ ReadInit
  /\ sales \in PageLedgers

PageNext ==
  \E i \in Readers :
    \/ ListSales(i)
    \/ ListTransactions(i)

\* one paginated read of a ledger of earlier sales
PageSpec == PageInit /\ [][PageNext]_vars

\* the client asks for the next page: the same GET /sales with cursor set to the
\* nextCursor of the response it holds, whose rows it keeps with those of the
\* earlier pages
ListMore(i) ==
  /\ req[i].pc = "done" /\ req[i].kind = "list" /\ "limit" \in DOMAIN req[i].params
  /\ req[i].response.meta.nextCursor # <<"null">>
  /\ LET r == req[i]
         q == [r.params EXCEPT !.cursor = r.response.meta.nextCursor]
         kept == IF DOMAIN r.pages = {}
                   THEN [from |-> r.params.cursor, rows |-> r.response.data]
                   ELSE [r.pages EXCEPT !.rows = @ \o r.response.data]
     IN req' = [req EXCEPT ![i] =
                  Reply([r EXCEPT !.params = q, !.pages = kept], 200, "",
                        SalesPage(r.principal, q))]
  /\ UNCHANGED <<products, sales, nextId, updates, accounts, now>>

CursorNext ==
  \E i \in Readers :
    \/ ListSales(i)
    \/ ListMore(i)

\* one listing of a ledger of earlier sales, followed page by page
CursorSpec == PageInit /\ [][CursorNext]_vars

\* ----------------------------------------- login, refresh and logout

\* values of req.body.refreshToken: absent, a number, a string that is no token of
\* this server, and the refresh tokens this server has signed or will sign; tokens
\* outlive the clock of the model (JWT_REFRESH_EXPIRES)
TokenValues ==
  {Absent, <<"num", 7>>, <<"bad">>}
    \cup {RefreshToken(a, iat) : a \in AccountIds, iat \in 0..MaxClock}

\* jwt.verify does not throw
Verifies(token) == token[1] = "jwt"

\* the stored document accepts the token
Accepts(a, token) == accounts[a].stored /\ accounts[a].refreshToken = token

\* staff.refreshToken = tokens.refreshToken; await staff.save()
Rotated(a) == [accounts EXCEPT ![a].refreshToken = RefreshToken(a, now)]

\* mutant: logout leaves the stored token in place
RevokedNever(a) == accounts

\* staff.refreshToken = null; await staff.save()
Revoked(a) == [accounts EXCEPT ![a].refreshToken = <<"null">>]

\* POST /staff-auth/login (staff) and POST /auth/login (a verified owner)
Login(i) ==
  /\ MayStart(i)
  /\ \E a \in AccountIds, match \in BOOLEAN :
       LET r == [req[i] EXCEPT !.kind = "login", !.principal = a,
                               !.params = [refreshToken |-> Absent]]
       IN IF ~accounts[a].stored \/ ~match
            THEN /\ req' = [req EXCEPT ![i] = Reply(r, 400, "Invalid credentials", <<>>)]
                 /\ accounts' = accounts
            ELSE /\ req' = [req EXCEPT ![i] =
                              Reply(r, 200, "", [refreshToken |-> RefreshToken(a, now)])]
                 /\ accounts' = Rotated(a)
  /\ UNCHANGED <<products, sales, nextId, updates, now>>

\* POST /staff-auth/refresh
RefreshStaff(i) ==
  /\ MayStart(i)
  /\ \E refreshToken \in TokenValues :
       LET r == [req[i] EXCEPT !.kind = "staff-refresh",
                               !.params = [refreshToken |-> refreshToken]]
       IN IF refreshToken[1] = "num"
            THEN /\ req' = [req EXCEPT ![i] = Reply(r, 400, "Validation error", <<>>)]
                 /\ accounts' = accounts
          ELSE IF refreshToken = Absent
            THEN /\ req' = [req EXCEPT ![i] = Reply(r, 400, "Refresh token required", <<>>)]
                 /\ accounts' = accounts
          ELSE IF \/ ~Verifies(refreshToken)
                  \/ refreshToken[3] # "staff"
                  \/ ~Accepts(refreshToken[2], refreshToken)
            THEN /\ req' = [req EXCEPT ![i] = Reply(r, 401, "Invalid refresh token", <<>>)]
                 /\ accounts' = accounts
            ELSE /\ req' = [req EXCEPT ![i] =
                              Reply(r, 200, "",
                                    [refreshToken |-> RefreshToken(refreshToken[2], now)])]
                 /\ accounts' = Rotated(refreshToken[2])
  /\ UNCHANGED <<products, sales, nextId, updates, now>>

\* POST /auth/refresh
Refresh(i) ==
  /\ MayStart(i)
  /\ \E refreshToken \in TokenValues :
       LET r == [req[i] EXCEPT !.kind = "refresh",
                               !.params = [refreshToken |-> refreshToken]]
       IN IF refreshToken = Absent
            THEN /\ req' = [req EXCEPT ![i] = Reply(r, 400, "Validation error", <<>>)]
                 /\ accounts' = accounts
          ELSE IF \/ ~Verifies(refreshToken)
                  \/ Typ(refreshToken[2]) # "user"
                  \/ ~Accepts(refreshToken[2], refreshToken)
            THEN /\ req' = [req EXCEPT ![i] = Reply(r, 401, "Invalid refresh token", <<>>)]
                 /\ accounts' = accounts
            ELSE /\ req' = [req EXCEPT ![i] =
                              Reply(r, 200, "",
                                    [refreshToken |-> RefreshToken(refreshToken[2], now)])]
                 /\ accounts' = Rotated(refreshToken[2])
  /\ UNCHANGED <<products, sales, nextId, updates, now>>

\* POST /staff-auth/logout
LogoutStaff(i) ==
  /\ MayStart(i)
  /\ \E refreshToken \in TokenValues :
       LET r == [req[i] EXCEPT !.kind = "staff-logout",
                               !.params = [refreshToken |-> refreshToken]]
       IN IF refreshToken[1] = "num"
            THEN /\ req' = [req EXCEPT ![i] = Reply(r, 400, "Validation error", <<>>)]
                 /\ accounts' = accounts
          ELSE /\ req' = [req EXCEPT ![i] = Reply(r, 200, "Logged out", <<>>)]
               /\ accounts' = IF /\ Verifies(refreshToken)
                                 /\ refreshToken[3] = "staff"
                                 /\ Accepts(refreshToken[2], refreshToken)
                               THEN Revoked(refreshToken[2])
                               ELSE accounts
  /\ UNCHANGED <<products, sales, nextId, updates, now>>

\* a second passes
Tick ==
  /\ now < MaxClock
  /\ now' = now + 1
  /\ UNCHANGED <<products, sales, req, nextId, updates, accounts>>

\* the client is done with the response of request i
Forget(i) ==
  /\ req[i].pc = "done"
  /\ req' = [req EXCEPT ![i] = IdleReq]
  /\ UNCHANGED <<products, sales, nextId, updates, accounts, now>>

AuthNext ==
  \/ \E i \in ReqIds :
       \/ Login(i)
       \/ RefreshStaff(i)
       \/ Refresh(i)
       \/ LogoutStaff(i)
       \/ Forget(i)
  \/ Tick

\* any sequence of logins, refreshes and logouts, at any pace
AuthSpec == Init /\ [][AuthNext]_vars

\* ------------------------------------------- refresh requests in flight together

\* POST /staff-auth/refresh and POST /auth/refresh up to the await of save(): the
\* token is verified, the account read and compared, the new tokens signed
RefreshRead(i) ==
  /\ MayStart(i)
  /\ \E kind \in {"staff-refresh", "refresh"}, refreshToken \in TokenValues :
       LET r == [req[i] EXCEPT !.kind = kind, !.params = [refreshToken |-> refreshToken]]
       IN req' = [req EXCEPT ![i] =
            IF refreshToken[1] = "num" /\ kind = "staff-refresh"
              THEN Reply(r, 400, "Validation error", <<>>)
            ELSE IF refreshToken = Absent
              THEN Reply(r, 400, IF kind = "refresh" THEN "Validation error"
                                                     ELSE "Refresh token required", <<>>)
            ELSE IF \/ ~Verifies(refreshToken)
                    \/ Typ(refreshToken[2]) # (IF kind = "refresh" THEN "user" ELSE "staff")
                    \/ ~Accepts(refreshToken[2], refreshToken)
              THEN Reply(r, 401, "Invalid refresh token", <<>>)
              ELSE [r EXCEPT !.pc = "save",
                             !.response =
                                [refreshToken |-> RefreshToken(refreshToken[2], now)]]]
  /\ UNCHANGED <<products, sales, nextId, updates, accounts, now>>

\* staff.refreshToken = tokens.refreshToken; await staff.save(); res.json({ tokens })
RefreshSave(i) ==
  /\ req[i].pc = "save"
  /\ accounts' = [accounts EXCEPT ![req[i].params.refreshToken[2]].refreshToken =
                                     req[i].response.refreshToken]
  /\ req' = [req EXCEPT ![i] = Reply(req[i], 200, "", req[i].response)]
  /\ UNCHANGED <<products, sales, nextId, updates, now>>

RaceNext ==
  \/ \E i \in ReqIds :
       \/ Login(i)
       \/ RefreshRead(i)
       \/ RefreshSave(i)
       \/ Forget(i)
  \/ Tick

\* logins and refreshes whose handlers run concurrently
RaceSpec == Init /\ [][RaceNext]_vars

\* ------------------------------------ a sale, then its three read views

\* the caller of a successful sale or checkout reads the transaction back by the id
\* it was given: its entry in the summaries, its detail, or its receipt
ReadBack(i) ==
  /\ req[i].pc = "done" /\ req[i].status = 201 /\ req[i].view = ""
  /\ \E kind \in {"transactions", "detail", "receipt"} :
       LET r == req[i]
           principal == r.principal
       IN IF kind = "transactions"
            THEN LET found == FindSales(Account[principal].storeId,
                                        ScopedStaff(principal, Undefined))
                 IN req' = [req EXCEPT ![i] =
                              [r EXCEPT !.view = kind,
                                        !.response = [data |-> Summaries(found)]]]
            ELSE LET found == TransactionRows(principal, r.transactionId)
                 IN IF found = {}
                      THEN req' = [req EXCEPT ![i] = [r EXCEPT !.view = "not found"]]
                      ELSE \E o \in SortedByCreatedAt(found) :
                             LET rows == [n \in DOMAIN o |-> sales[o[n]]]
                             IN req' = [req EXCEPT ![i] =
                                  [r EXCEPT !.view = kind,
                                            !.response = LookupBody(kind, rows)]]
  /\ UNCHANGED <<products, sales, nextId, updates, accounts, now>>

ReadBackItemLists ==
  {<< <<"bb", 1>> >>, << <<"aa", 1>> >>, << <<"aa", 2>> >>, << <<"bb", 1>>, <<"aa", 2>> >>}

\* sales and checkouts by either principal, one or two lines, without a client total
ReadBackCalls ==
  \A i \in ReqIds :
    req[i].pc # "idle" =>
      /\ req[i].bodyStaff = Undefined
      /\ req[i].expectedTotal = <<"undefined">>
      /\ req[i].items \in ReadBackItemLists

ReadBackNext ==
  \E i \in ReqIds :
    \/ StartSale(i) /\ ReadBackCalls'
    \/ SaleReserve(i)
    \/ SaleClassify(i)
    \/ SaleCreate(i)
    \/ StartCheckout(i) /\ ReadBackCalls'
    \/ CheckoutLine(i)
    \/ CheckoutRetry(i)
    \/ CheckoutCommit(i)
    \/ ReadBack(i)

ReadBackSpec == Init /\ [][ReadBackNext]_vars

\* ------------------------------------ catalog, staff and report routes

\* mutant: the staff role is let through every gate
RoleAllowsStaff(principal, allowedRoles) ==
  Account[principal].role \in allowedRoles \cup {"staff"}

\* roleMiddleware(allowedRoles): the role of the authenticated account is allowed
RoleAllows(principal, allowedRoles) == Account[principal].role \in allowedRoles

\* an ObjectId no Product document has had yet, and the id of a deleted document:
\* no filter on store matches either
Unused ==
  [store |-> Null, quantity |-> 0, price |-> <<"undefined">>, name |-> Undefined,
   costPrice |-> <<"undefined">>]
Deleted ==
  [store |-> Null, quantity |-> 0, price |-> <<"undefined">>, name |-> Undefined,
   costPrice |-> <<"undefined">>, deleted |-> TRUE]

\* a Staff document that was deleted
DeletedAccount == [stored |-> FALSE, refreshToken |-> <<"null">>, deleted |-> TRUE]

\* bodies of POST /products: a valid one, and one the validators reject
CreateBodies ==
  {[name |-> "Dates", price |-> <<"num", 4>>, costPrice |-> <<"num", 1>>, quantity |-> 2],
   [name |-> "", price |-> <<"num", 4>>, costPrice |-> <<"num", 1>>, quantity |-> 2]}

\* POST /products
ProductCreate(i) ==
  /\ MayStart(i)
  /\ \E principal \in Principals, body \in CreateBodies :
       LET r == [req[i] EXCEPT !.kind = "product-create", !.principal = principal,
                               !.params = body]
       IN IF ~RoleAllows(principal, {"admin", "manager"})
            THEN /\ req' = [req EXCEPT ![i] =
                              Reply(r, 403, "Forbidden: Access denied for your role", <<>>)]
                 /\ UNCHANGED <<products, updates>>
          ELSE IF body.name = ""
            THEN /\ req' = [req EXCEPT ![i] = Reply(r, 400, "Validation error", <<>>)]
                 /\ UNCHANGED <<products, updates>>
            ELSE /\ updates < MaxEdits
                 /\ \E oid \in Oids :
                      /\ products[oid] = Unused
                      /\ products' = [products EXCEPT ![oid] =
                                        [store |-> Account[principal].storeId,
                                         quantity |-> body.quantity, price |-> body.price,
                                         name |-> body.name, costPrice |-> body.costPrice]]
                      /\ req' = [req EXCEPT ![i] = Reply(r, 201, "", [_id |-> oid])]
                 /\ updates' = updates + 1
  /\ UNCHANGED <<sales, nextId, accounts, now>>

\* bodies of PUT /products/:id that set one field, or unset it ({ $unset: { costPrice } })
PutBodies ==
  {[field |-> "name", value |-> "Pear"], [field |-> "name", value |-> ""],
   [field |-> "price", value |-> <<"num", 4>>], [field |-> "quantity", value |-> 0],
   [field |-> "costPrice", value |-> <<"null">>],
   [field |-> "costPrice", value |-> <<"undefined">>],
   [field |-> "costPrice", value |-> <<"num", 3>>]}

\* PUT /products/:id
ProductPut(i) ==
  /\ MayStart(i)
  /\ \E principal \in Principals, oid \in Oids, body \in PutBodies :
       LET r == [req[i] EXCEPT !.kind = "product-put", !.principal = principal,
                               !.params = [id |-> oid, body |-> body]]
       IN IF ~RoleAllows(principal, {"admin", "manager"})
            THEN /\ req' = [req EXCEPT ![i] =
                              Reply(r, 403, "Forbidden: Access denied for your role", <<>>)]
                 /\ UNCHANGED <<products, updates>>
          ELSE IF ~Exists(products[oid], Account[principal].storeId)
            THEN /\ req' = [req EXCEPT ![i] =
                              Reply(r, 404, "Product not found or access denied", <<>>)]
                 /\ UNCHANGED <<products, updates>>
            ELSE /\ updates < MaxEdits
                 /\ ~Locked(oid, 0)
                 /\ products' = [products EXCEPT ![oid] =
                                   CASE body.field = "name" -> [@ EXCEPT !.name = body.value]
                                     [] body.field = "price" -> [@ EXCEPT !.price = body.value]
                                     [] body.field = "costPrice" ->
                                          [@ EXCEPT !.costPrice = body.value]
                                     [] OTHER -> [@ EXCEPT !.quantity = body.value]]
                 /\ req' = [req EXCEPT ![i] = Reply(r, 200, "", [_id |-> oid])]
                 /\ updates' = updates + 1
  /\ UNCHANGED <<sales, nextId, accounts, now>>

\* DELETE /products/:id
ProductDelete(i) ==
  /\ MayStart(i)
  /\ \E principal \in Principals, oid \in Oids :
       LET r == [req[i] EXCEPT !.kind = "product-delete", !.principal = principal,
                               !.params = [id |-> oid]]
       IN IF ~RoleAllows(principal, {"admin", "manager"})
            THEN /\ req' = [req EXCEPT ![i] =
                              Reply(r, 403, "Forbidden: Access denied for your role", <<>>)]
                 /\ UNCHANGED <<products, updates>>
          ELSE IF ~Exists(products[oid], Account[principal].storeId)
            THEN /\ req' = [req EXCEPT ![i] =
                              Reply(r, 404, "Product not found or access denied", <<>>)]
                 /\ UNCHANGED <<products, updates>>
            ELSE /\ updates < MaxEdits
                 /\ ~Locked(oid, 0)
                 /\ products' = [products EXCEPT ![oid] = Deleted]
                 /\ req' = [req EXCEPT ![i] = Reply(r, 200, "Product deleted", <<>>)]
                 /\ updates' = updates + 1
  /\ UNCHANGED <<sales, nextId, accounts, now>>

\* POST /staff: a complete body for a new staff member, or a body without a name
StaffCreate(i) ==
  /\ MayStart(i)
  /\ \E principal \in Principals, name \in {"Sue", ""} :
       LET r == [req[i] EXCEPT !.kind = "staff-create", !.principal = principal,
                               !.params = [name |-> name]]
       IN IF ~RoleAllows(principal, {"admin", "manager"})
            THEN /\ req' = [req EXCEPT ![i] =
                              Reply(r, 403, "Forbidden: Access denied for your role", <<>>)]
                 /\ accounts' = accounts
          ELSE IF name = ""
            THEN /\ req' = [req EXCEPT ![i] = Reply(r, 400, "Validation error", <<>>)]
                 /\ accounts' = accounts
          ELSE IF \E a \in AccountIds \ Principals : accounts[a].stored
            THEN /\ req' = [req EXCEPT ![i] = Reply(r, 400, "Validation error", <<>>)]
                 /\ accounts' = accounts
            ELSE \E a \in AccountIds \ Principals :
                   /\ accounts[a] = NoAccount
                   /\ accounts' = [accounts EXCEPT ![a] =
                                     [stored |-> TRUE, refreshToken |-> <<"null">>]]
                   /\ req' = [req EXCEPT ![i] = Reply(r, 201, "", [_id |-> a])]
  /\ UNCHANGED <<products, sales, nextId, updates, now>>

\* DELETE /staff/:id
StaffDelete(i) ==
  /\ MayStart(i)
  /\ \E principal \in Principals, a \in AccountIds :
       LET r == [req[i] EXCEPT !.kind = "staff-delete", !.principal = principal,
                               !.params = [id |-> a]]
       IN IF ~RoleAllows(principal, {"admin"})
            THEN /\ req' = [req EXCEPT ![i] =
                              Reply(r, 403, "Forbidden: Access denied for your role", <<>>)]
                 /\ accounts' = accounts
          ELSE IF Typ(a) # "staff" \/ ~accounts[a].stored
            THEN /\ req' = [req EXCEPT ![i] = Reply(r, 404, "Staff not found", <<>>)]
                 /\ accounts' = accounts
            ELSE /\ accounts' = [accounts EXCEPT ![a] = DeletedAccount]
                 /\ req' = [req EXCEPT ![i] =
                              Reply(r, 200, "Staff deleted successfully", <<>>)]
  /\ UNCHANGED <<products, sales, nextId, updates, now>>

\* the routes of /reports
ReportEndpoints ==
  {"sales-by-staff", "total-sales", "low-stock", "profit", "profit-by-product",
   "profit-by-staff"}

\* GET /reports/...: the products at or under the default lowStockThreshold of 5 for
\* low-stock, and the sum of totalPrice of the rows of the store for the others
Report(i) ==
  /\ MayStart(i)
  /\ \E principal \in Principals, endpoint \in ReportEndpoints :
       LET r == [req[i] EXCEPT !.kind = "report", !.principal = principal,
                               !.params = [endpoint |-> endpoint]]
           rows == {k \in 1..Len(sales) : sales[k].store = principal}
       IN req' = [req EXCEPT ![i] =
                    IF ~RoleAllows(principal, {"admin", "manager"})
                      THEN Reply(r, 403, "Forbidden: Access denied for your role", <<>>)
                    ELSE IF endpoint = "low-stock"
                      THEN Reply(r, 200, "",
                                 [products |-> {p \in Oids : /\ products[p].store = principal
                                                             /\ products[p].quantity <= 5}])
                      ELSE Reply(r, 200, "",
                                 [totalSales |->
                                    SumOf(rows, [k \in rows |-> sales[k].totalPrice])])]
  /\ UNCHANGED <<products, sales, nextId, updates, accounts, now>>

\* a catalog of the owner's store with one product, and an ObjectId still unused
StoreInit ==
  /\ products = [p \in Oids |->
                   CASE p = "aa" -> [store |-> "u1", quantity |-> InitialQuantity(p),
                                     price |-> <<"num", 5>>, name |-> ProductName(p),
                                     costPrice |-> <<"num", 2>>]
                     [] p = "bb" -> Unused
                     [] OTHER    -> [store |-> "u2", quantity |-> InitialQuantity(p),
                                     price |-> <<"num", 5>>, name |-> ProductName(p),
                                     costPrice |-> <<"num", 2>>]]
  /\ sales = <<>>
  /\ req = [i \in ReqIds |-> IdleReq]
  /\ nextId = 0
  /\ updates = 0
  /\ accounts = [a \in AccountIds |-> IF a \in Principals THEN LoggedIn(a) ELSE NoAccount]
  /\ now = 0

\* a sale or checkout of an authenticated caller, without staff or client total
StoreCall(i) ==
  /\ req[i].bodyStaff = Undefined
  /\ req[i].expectedTotal = <<"undefined">>
  /\ req[i].items \in RacingItemLists
  /\ accounts[req[i].principal].stored

\* the caller of the catalog, staff and report routes sends one request at a time
OneAtATime == \A j \in ReqIds : req[j].kind \in {"none", "sale", "checkout"}

\* one unit of the first product per sale; the owner manages catalog and staff,
\* renames a product or sets its quantity, one catalog write in all
LedgerCall(i) ==
  IF req[i].kind \in {"sale", "checkout"}
    THEN StoreCall(i) /\ req[i].items = << <<"aa", 1>> >>
    ELSE /\ req[i].principal = "u1"
         /\ req[i].kind = "product-put" =>
              req[i].params.body \in {[field |-> "name", value |-> "Pear"],
                                      [field |-> "quantity", value |-> 0]}
         /\ updates <= MaxUpdates

LedgerNext ==
  \E i \in ReqIds :
    \/ StartSale(i) /\ LedgerCall(i)'
    \/ SaleReserve(i)
    \/ SaleClassify(i)
    \/ SaleCreate(i)
    \/ StartCheckout(i) /\ LedgerCall(i)'
    \/ CheckoutLine(i)
    \/ CheckoutRetry(i)
    \/ CheckoutCommit(i)
    \/ ReadBack(i) /\ req'[i].view # "transactions"
    \/ ProductCreate(i) /\ OneAtATime /\ LedgerCall(i)'
    \/ ProductPut(i) /\ OneAtATime /\ LedgerCall(i)'
    \/ ProductDelete(i) /\ OneAtATime /\ LedgerCall(i)'
    \/ StaffCreate(i) /\ OneAtATime /\ LedgerCall(i)'
    \/ StaffDelete(i) /\ OneAtATime /\ LedgerCall(i)'
    \/ Report(i) /\ OneAtATime /\ LedgerCall(i)'
    \/ Forget(i) /\ req[i].kind \notin {"sale", "checkout"}

\* sales, checkouts and their reads next to the catalog, staff and report routes
LedgerSpec == StoreInit /\ [][LedgerNext]_vars

\* the owner sells the first product and edits one of its fields
RenameCall(i) ==
  IF req[i].kind \in {"sale", "checkout"}
    THEN StoreCall(i) /\ req[i].principal = "u1" /\ req[i].items = << <<"aa", 1>> >>
    ELSE /\ req[i].principal = "u1"
         /\ req[i].params.id = "aa"

RenameNext ==
  \E i \in ReqIds :
    \/ StartSale(i) /\ RenameCall(i)'
    \/ SaleReserve(i)
    \/ SaleClassify(i)
    \/ SaleCreate(i)
    \/ StartCheckout(i) /\ RenameCall(i)'
    \/ CheckoutLine(i)
    \/ CheckoutRetry(i)
    \/ CheckoutCommit(i)
    \/ ReadBack(i) /\ req'[i].view = "receipt"
    \/ ProductPut(i) /\ OneAtATime /\ RenameCall(i)'
    \/ Forget(i) /\ req[i].kind \notin {"sale", "checkout"}

\* sales of a product, edits of its fields, and receipts
RenameSpec == StoreInit /\ [][RenameNext]_vars

\* any account sells one unit of the first product per sale; any account calls the
\* catalog, staff and report routes, a product write renames or sets the quantity
RoleCall(i) ==
  IF req[i].kind \in {"sale", "checkout"}
    THEN StoreCall(i) /\ req[i].items = << <<"aa", 1>> >>
    ELSE /\ req[i].kind = "product-put" =>
              req[i].params.body \in {[field |-> "name", value |-> "Pear"],
                                      [field |-> "quantity", value |-> 0]}
         /\ updates <= MaxUpdates

RoleNext ==
  \E i \in ReqIds :
    \/ StartSale(i) /\ RoleCall(i)'
    \/ SaleReserve(i)
    \/ SaleClassify(i)
    \/ SaleCreate(i)
    \/ StartCheckout(i) /\ RoleCall(i)'
    \/ CheckoutLine(i)
    \/ CheckoutRetry(i)
    \/ CheckoutCommit(i)
    \/ ProductCreate(i) /\ OneAtATime /\ RoleCall(i)'
    \/ ProductPut(i) /\ OneAtATime /\ RoleCall(i)'
    \/ ProductDelete(i) /\ OneAtATime /\ RoleCall(i)'
    \/ StaffCreate(i) /\ OneAtATime /\ RoleCall(i)'
    \/ StaffDelete(i) /\ OneAtATime /\ RoleCall(i)'
    \/ Report(i) /\ OneAtATime /\ RoleCall(i)'
    \/ Forget(i) /\ req[i].kind \notin {"sale", "checkout"}

\* the owner and a staff member use the sale, catalog, staff and report routes
RoleSpec == StoreInit /\ [][RoleNext]_vars

\* ------------------------------------ sales next to restocks and deletions

\* the owner asks for two units of "bb", alone or after one unit of "aa"
RestockItemLists == {<< <<"bb", 2>> >>, << <<"aa", 1>>, <<"bb", 2>> >>}
RestockCall(i) ==
  IF req[i].kind \in {"sale", "checkout"}
    THEN /\ req[i].principal = "u1"
         /\ req[i].bodyStaff = Undefined
         /\ req[i].expectedTotal = <<"undefined">>
         /\ req[i].items \in RestockItemLists
    ELSE req[i].principal = "u1"

RestockNext ==
  \/ \E i \in ReqIds :
       \/ StartSale(i) /\ RestockCall(i)'
       \/ SaleReserve(i)
       \/ SaleClassify(i)
       \/ SaleCreate(i)
       \/ StartCheckout(i) /\ RestockCall(i)'
       \/ CheckoutLine(i)
       \/ CheckoutRetry(i)
       \/ CheckoutCommit(i)
       \/ ProductDelete(i) /\ OneAtATime /\ RestockCall(i)'
       \/ Forget(i) /\ req[i].kind \notin {"sale", "checkout"}
  \/ ProductUpdate

\* those sales and checkouts, concurrent with restocks and deletions of products
RestockSpec == Init /\ [][RestockNext]_vars

\* ------------------------------------- checkouts that reserve in opposite orders

\* mutant: the driver has no limit on re-running the callback
RetryBudgetUnlimited(i) == FALSE

\* withTransaction stops re-running the callback once its retry budget is spent
RetryBudgetSpent(i) == req[i].attempts >= MaxAttempts

\* the last attempt ends in WriteConflict: withTransaction throws, the catch block
\* answers 500 with the error's message
CheckoutGiveUp(i) ==
  /\ req[i].pc = "txn"
  /\ req[i].idx <= Len(req[i].merged)
  /\ WriteConflict(i)
  /\ RetryBudgetSpent(i)
  /\ products' = AbortTransaction(i)
  /\ req' = [req EXCEPT ![i] =
               [EndSession(Respond(req[i], 500, "WriteConflict", <<>>))
                  EXCEPT !.applied = Charge(i, AbortTransaction(i))]]
  /\ UNCHANGED <<sales, nextId, updates, accounts, now>>

\* the owner buys "aa" and "bb" in one order or the other, or one of them alone
OpposedItemLists ==
  {<< <<"aa", 1>>, <<"bb", 1>> >>, << <<"bb", 1>>, <<"aa", 1>> >>,
   << <<"aa", 1>> >>, << <<"bb", 1>> >>}
OpposedCall(i) ==
  /\ req[i].principal = "u1"
  /\ req[i].bodyStaff = Undefined
  /\ req[i].expectedTotal = <<"undefined">>
  /\ req[i].items \in OpposedItemLists

OpposedNext ==
  \E i \in ReqIds :
    \/ StartSale(i) /\ OpposedCall(i)'
    \/ SaleReserve(i)
    \/ SaleClassify(i)
    \/ SaleCreate(i)
    \/ StartCheckout(i) /\ OpposedCall(i)'
    \/ CheckoutLine(i)
    \/ CheckoutRetry(i)
    \/ CheckoutGiveUp(i)
    \/ CheckoutCommit(i)

\* every handler that has a step to take is scheduled again
HandlersRun ==
  \A i \in ReqIds :
    /\ WF_vars(SaleReserve(i)) /\ WF_vars(SaleClassify(i)) /\ WF_vars(SaleCreate(i))
    /\ WF_vars(CheckoutLine(i)) /\ WF_vars(CheckoutRetry(i))
    /\ WF_vars(CheckoutGiveUp(i)) /\ WF_vars(CheckoutCommit(i))

\* concurrent sales and checkouts over the same products, fairly scheduled
OpposedSpec == Init /\ [][OpposedNext]_vars /\ HandlersRun

\* ------------------------------------- bodies the validators turn away

\* isMongoId(): the string is one of the 24-hex-digit ids
IsMongoId(s) == s \in IdStrings

\* mutant: isInt() without its lower bound
IsIntUnbounded(n, min) == TRUE

\* isInt({ min }) on an integer
IsInt(n, min) == n >= min

\* lines as they arrive: product string and quantity, before any validator ran
PostedLines ==
  {<<"aa", 1>>, <<"bb", 1>>, <<"aa", 0>>, <<"aa", -1>>, <<"not-an-id", 1>>}

\* bodies of POST /sales
PostedSales == {[items |-> <<l>>, staff |-> Undefined] : l \in PostedLines}

\* bodies of POST /sales/checkout: items empty, or up to MaxItems posted lines, and
\* a one-line body with each value of the staff field
PostedCheckouts ==
  {[items |-> it, staff |-> Undefined, expectedTotal |-> <<"undefined">>] :
     it \in {<<>>} \cup UNION {[1..n -> PostedLines] : n \in 1..MaxItems}}
    \cup {[items |-> << <<"aa", 1>> >>, staff |-> v, expectedTotal |-> <<"undefined">>] :
             v \in StaffValues}

\* body("product").isMongoId(), body("quantity").isInt({ min: 1 })
SaleValidators(body) ==
  /\ IsMongoId(body.items[1][1])
  /\ IsInt(body.items[1][2], 1)

\* body("items").isArray({ min: 1 }), items.*.product, items.*.quantity
CheckoutValidators(body) ==
  /\ Len(body.items) >= 1
  /\ \A k \in 1..Len(body.items) :
       /\ IsMongoId(body.items[k][1])
       /\ IsInt(body.items[k][2], 1)

\* if (!errors.isEmpty()) return res.status(400).json({ message: "Validation error", ... })
ValidationError(i, kind, principal, body) ==
  Respond([req[i] EXCEPT !.kind = kind, !.principal = principal, !.items = body.items],
          400, "Validation error", [path |-> "body"])

\* POST /sales with any posted body
PostSale(i) ==
  /\ MayStart(i)
  /\ \E principal \in Principals, body \in PostedSales :
       IF ~SaleValidators(body)
         THEN req' = [req EXCEPT ![i] = ValidationError(i, "sale", principal, body)]
         ELSE SaleHandler(i, principal, body)
  /\ UNCHANGED <<products, sales, nextId, updates, accounts, now>>

\* POST /sales/checkout with any posted body
PostCheckout(i) ==
  /\ MayStart(i)
  /\ \E principal \in Principals, body \in PostedCheckouts :
       IF ~CheckoutValidators(body)
         THEN /\ req' = [req EXCEPT ![i] = ValidationError(i, "checkout", principal, body)]
              /\ nextId' = nextId
         ELSE CheckoutHandler(i, principal, body)
  /\ UNCHANGED <<products, sales, updates, accounts, now>>

PostNext ==
  \E i \in ReqIds :
    \/ PostSale(i)
    \/ SaleReserve(i)
    \/ SaleClassify(i)
    \/ SaleCreate(i)
    \/ PostCheckout(i)
    \/ CheckoutLine(i)
    \/ CheckoutRetry(i)
    \/ CheckoutCommit(i)

\* concurrent sales and checkouts with well-formed and malformed bodies
PostSpec == Init /\ [][PostNext]_vars

SessionNext ==
  \/ PostNext
  \/ \E i \in ReqIds : CheckoutGiveUp(i)

\* concurrent sales and checkouts with any posted body, on every path to a response
SessionSpec == Init /\ [][SessionNext]_vars

\* ------------------------------------------------------------- claims

Done(i) == req[i].pc = "done"
Succeeded(i) == Done(i) /\ req[i].status = 201
Failed(i) == Done(i) /\ req[i].status # 201

\* rows of the ledger created by request i
RowsBy(i) == {k \in 1..Len(sales) : sales[k].by = i}

\* total quantity the lines of a body ask of product p
RECURSIVE QtyOf(_, _)
QtyOf(items, p) ==
  IF items = <<>> THEN 0
  ELSE (IF ToObjectId(Head(items)[1]) = p THEN Head(items)[2] ELSE 0) + QtyOf(Tail(items), p)

Wanted(i, p) == QtyOf(req[i].items, p)

\* quantity of product p asked by the requests 1..n that succeeded
RECURSIVE SoldTo(_, _)
SoldTo(n, p) ==
  IF n = 0 THEN 0
  ELSE SoldTo(n - 1, p) + (IF Succeeded(n) THEN Wanted(n, p) ELSE 0)

Untouched(i) == req[i].applied = NoApplied /\ RowsBy(i) = {}

\* C1: no oversell. In every reachable state of concurrent sales and checkouts the
\* stored quantity of every product is >= 0, the quantities of the requests that
\* succeeded sum to at most the initial stock, and a request whose reservation found
\* the product in the tenant with too little stock ends with InsufficientStock
\* (400, fewer available than requested).
C1_NoOversell ==
  /\ \A p \in Oids : products[p].quantity >= 0
  /\ \A p \in Oids : SoldTo(MaxReq, p) <= InitialQuantity(p)
  /\ \A i \in ReqIds :
       /\ Done(i) /\ req[i].short =>
            req[i].status = 400 /\ req[i].message = "Insufficient stock"
       /\ Done(i) /\ req[i].message = "Insufficient stock" =>
            req[i].details.available < req[i].details.requested

\* C1 witness: a sale holds its reservation while a checkout of the same product
\* has been refused for lack of stock
C1_Witness ==
  \E i, j \in ReqIds :
    /\ req[i].kind = "sale" /\ req[i].pc = "create"
    /\ req[j].kind = "checkout" /\ Done(j) /\ req[j].message = "Insufficient stock"
    /\ ToObjectId(req[j].details.productId) = ToObjectId(req[i].items[1][1])
    /\ Wanted(i, "aa") + Wanted(j, "aa") > StockA
    /\ Wanted(j, "aa") <= StockA

\* C2: checkout atomicity. A checkout that failed on any merged line (NotFound,
\* InsufficientStock, InvalidPricing) has created no Sale row and has changed no
\* product's committed quantity, lines reserved earlier in the checkout included;
\* a checkout still running has changed none either.
C2_CheckoutAtomicity ==
  \A i \in ReqIds :
    req[i].kind = "checkout" /\ (Failed(i) \/ req[i].pc = "txn") => Untouched(i)

\* C2 witness: a two-line checkout refused on its second line, the first reserved
C2_Witness ==
  \E i \in ReqIds :
    /\ req[i].kind = "checkout" /\ Failed(i)
    /\ Len(req[i].merged) = 2
    /\ req[i].message \in {"Insufficient stock", "Invalid product pricing",
                           "Product not found in this store"}
    /\ req[i].details.productId = req[i].merged[2][1]
    /\ ToObjectId(req[i].merged[1][1]) # ToObjectId(req[i].merged[2][1])
    /\ \A p \in Oids : products[p].quantity = InitialQuantity(p)

\* C3: a single sale whose reservation found the product in the tenant with less
\* stock than requested ends 400 InsufficientStock with details available < requested
\* = the body's quantity, a single sale of a product not in the caller's tenant ends
\* 404 NotFound, and in both cases the request changed no stock and created no row.
C3_SingleSaleRefusal ==
  \A i \in ReqIds :
    req[i].kind = "sale" /\ Done(i) =>
      LET oid == ToObjectId(req[i].items[1][1])
          inTenant == products[oid].store = Account[req[i].principal].storeId
      IN /\ req[i].short => req[i].message = "Insufficient stock"
         /\ ~inTenant /\ req[i].message # "Validation error" <=> req[i].status = 404
         /\ req[i].message = "Insufficient stock" =>
              /\ req[i].status = 400 /\ inTenant /\ Untouched(i)
              /\ req[i].details.requested = req[i].items[1][2]
              /\ req[i].details.available < req[i].details.requested
         /\ req[i].status = 404 =>
              /\ req[i].message = "Product not found in this store" /\ Untouched(i)

\* C3 witness: one sale refused for lack of stock and one for a foreign product
C3_Witness ==
  \E i, j \in ReqIds :
    /\ req[i].kind = "sale" /\ Done(i) /\ req[i].message = "Insufficient stock"
    /\ req[i].details.available = 1 /\ req[i].details.requested = 2
    /\ req[j].kind = "sale" /\ Done(j) /\ req[j].status = 404

\* C4 (as claimed): a single sale rejected with InvalidPricing has changed no stock
\* and created no row.
C4_PricingBeforeDecrement ==
  \A i \in ReqIds :
    req[i].kind = "sale" /\ Done(i) /\ req[i].message = "Invalid product pricing" =>
      Untouched(i)

\* number of lines of a body that name product p
RECURSIVE LinesOf(_, _)
LinesOf(items, p) ==
  IF items = <<>> THEN 0
  ELSE (IF ToObjectId(Head(items)[1]) = p THEN 1 ELSE 0) + LinesOf(Tail(items), p)

\* rows of request i for product p
RowsFor(i, p) == {k \in RowsBy(i) : sales[k].product = p}

\* C5 (as claimed): a successful checkout with several lines for one product has
\* exactly one Sale row for that product, with the summed quantity, and has taken
\* exactly that sum out of the product's stock.
C5_DuplicateLineMerge ==
  \A i \in ReqIds, p \in Oids :
    req[i].kind = "checkout" /\ Succeeded(i) /\ LinesOf(req[i].items, p) >= 2 =>
      /\ Cardinality(RowsFor(i, p)) = 1
      /\ \A k \in RowsFor(i, p) : sales[k].quantity = Wanted(i, p)
      /\ req[i].applied[p] = Wanted(i, p)

\* sum of unitPrice x quantity over a set of rows
RECURSIVE SumRows(_)
SumRows(K) ==
  IF K = {} THEN 0
  ELSE LET k == CHOOSE x \in K : TRUE
       IN sales[k].unitPrice * sales[k].quantity + SumRows(K \ {k})

\* C6 (as claimed): a successful checkout has reduced each product's stock by its
\* merged quantity and no other product's, has created as many Sale rows as it has
\* distinct products, all with the returned transaction id, and its total is the
\* sum of unitPrice x quantity over those rows.
C6_CheckoutEffect ==
  \A i \in ReqIds :
    req[i].kind = "checkout" /\ Succeeded(i) =>
      /\ \A p \in Oids : req[i].applied[p] = Wanted(i, p)
      /\ Cardinality(RowsBy(i)) = Cardinality({p \in Oids : Wanted(i, p) > 0})
      /\ \A k \in RowsBy(i) : sales[k].transactionId = req[i].transactionId
      /\ req[i].total = SumRows(RowsBy(i))

\* C7: every Sale row has totalPrice = unitPrice x quantity and quantity >= 1, its
\* unitPrice is the stored price of its product and its quantity what the request
\* asked of that product's line: nothing of the row's money comes from the body.
C7_RowPricing ==
  \A k \in 1..Len(sales) :
    /\ sales[k].totalPrice = sales[k].unitPrice * sales[k].quantity
    /\ sales[k].quantity >= 1
    /\ <<sales[k].unitPrice>> = Number(products[sales[k].product].price)
    /\ sales[k].quantity <= Wanted(sales[k].by, sales[k].product)

\* C7 witness: the ledger holds a row of a single sale and a row of a checkout,
\* of more than one unit each
C7_Witness ==
  \E k, l \in 1..Len(sales) :
    /\ req[sales[k].by].kind = "sale" /\ sales[k].quantity = 2 /\ sales[k].totalPrice = 10
    /\ req[sales[l].by].kind = "checkout" /\ sales[l].quantity = 1 /\ sales[l].totalPrice = 3

\* C8: on every Sale row cashierType is "staff" exactly when staff is set and
\* cashierUser is null, and "user" exactly when cashierUser is set and staff is null.
C8_AttributionInvariant ==
  \A k \in 1..Len(sales) :
    /\ sales[k].cashierType \in {"staff", "user"}
    /\ sales[k].cashierType = "staff" <=> sales[k].staff # Null /\ sales[k].cashierUser = Null
    /\ sales[k].cashierType = "user" <=> sales[k].cashierUser # Null /\ sales[k].staff = Null

\* C8 witness: a row recorded by a staff account next to one recorded by the owner,
\* one from each entry point
C8_Witness ==
  \E k, l \in 1..Len(sales) :
    /\ sales[k].cashierType = "staff" /\ req[sales[k].by].kind = "checkout"
    /\ sales[l].cashierType = "user" /\ req[sales[l].by].kind = "sale"

SuppliedByOwner(i, values) ==
  /\ req[i].kind \in {"sale", "checkout"}
  /\ Account[req[i].principal].userType = "user"
  /\ req[i].bodyStaff \in values

\* C9 (as claimed): a request of an owner/manager whose body has a staff field is
\* rejected 400 (validation error) and changes neither stock nor ledger.
C9_StaffFieldRejected ==
  \A i \in ReqIds :
    SuppliedByOwner(i, StaffValues \ {Undefined}) =>
      /\ Untouched(i)
      /\ Done(i) => req[i].status = 400 /\ req[i].message = "Validation error"

\* C10: every Sale row created for a staff principal has staff = that principal's id
\* (cashierType "staff", cashierUser null), whatever the body's staff field holds.
C10_StaffSelfAttribution ==
  \A k \in 1..Len(sales) :
    LET r == req[sales[k].by]
    IN Account[r.principal].userType = "staff" =>
         /\ sales[k].staff = r.principal
         /\ sales[k].cashierType = "staff"
         /\ sales[k].cashierUser = Null

\* C10 witness: rows of both entry points whose staff caller named another staff member
C10_Witness ==
  \E k, l \in 1..Len(sales) :
    /\ req[sales[k].by].kind = "sale" /\ req[sales[l].by].kind = "checkout"
    /\ \A m \in {k, l} :
         /\ req[sales[m].by].principal = "s1"
         /\ req[sales[m].by].bodyStaff = "s2"
         /\ sales[m].staff = "s1"

\* the cashier attribution block of a Sale row
AttributionBlock(row) ==
  <<row.staff, row.cashierType, row.cashierUser, row.cashierNameSnapshot>>

\* C11: transaction grouping. All Sale rows created by one call share one
\* transactionId (the one the call minted), the caller's tenant and one cashier
\* attribution block, and rows of two distinct calls never share a transactionId.
C11_TransactionGrouping ==
  \A k, l \in 1..Len(sales) :
    /\ sales[k].transactionId = req[sales[k].by].transactionId
    /\ sales[k].store = Account[req[sales[k].by].principal].storeId
    /\ sales[k].by = sales[l].by =>
         /\ sales[k].transactionId = sales[l].transactionId
         /\ sales[k].store = sales[l].store
         /\ AttributionBlock(sales[k]) = AttributionBlock(sales[l])
    /\ sales[k].transactionId = sales[l].transactionId => sales[k].by = sales[l].by

\* C11 witness: the ledger holds two rows of one checkout, for two products, and a
\* row of another call recorded by another cashier
C11_Witness ==
  \E k, l, m \in 1..Len(sales) :
    /\ sales[k].by = sales[l].by /\ sales[k].product # sales[l].product
    /\ req[sales[k].by].kind = "checkout"
    /\ sales[m].by # sales[k].by
    /\ AttributionBlock(sales[m]) # AttributionBlock(sales[k])

\* C12: total validation is advisory. A checkout that supplied client.expectedTotal
\* is refused only for a stock, product or pricing error of one of its lines; when it
\* succeeds the response reports serverTotal (the total of the rows it persisted, at
\* the stored prices), the client's figure, and matches = TRUE exactly when the two
\* are equal.
C12_AdvisoryValidation ==
  \A i \in ReqIds :
    req[i].kind = "checkout" /\ req[i].expectedTotal \in ExpectedTotals =>
      /\ Failed(i) =>
           /\ req[i].message \in {"Insufficient stock", "Invalid product pricing",
                                  "Product not found in this store"}
           /\ req[i].message = "Insufficient stock" => req[i].short
           /\ req[i].message = "Invalid product pricing" =>
                ~IsFinite(Number(products[ToObjectId(req[i].details.productId)].price))
      /\ Succeeded(i) =>
           /\ req[i].validation.serverTotal = SumRows(RowsBy(i))
           /\ req[i].validation.clientExpectedTotal = req[i].expectedTotal
           /\ req[i].validation.matches =
                <<"bool", req[i].expectedTotal[2] = SumRows(RowsBy(i))>>
           /\ \A k \in RowsBy(i) :
                <<sales[k].unitPrice>> = Number(products[sales[k].product].price)

\* C12 witness: one checkout whose expected total matched and one whose expected total
\* did not, both committed at the stored price
C12_Witness ==
  \E i, j \in ReqIds :
    /\ req[i].expectedTotal \in ExpectedTotals /\ req[j].expectedTotal \in ExpectedTotals
    /\ Succeeded(i) /\ req[i].validation.matches = <<"bool", TRUE>>
    /\ Succeeded(j) /\ req[j].validation.matches = <<"bool", FALSE>>
    /\ req[j].validation.serverTotal = 5 /\ req[j].validation.clientExpectedTotal = <<"num", 4>>
    /\ \E k \in RowsBy(j) : sales[k].unitPrice = 5

\* the id strings a body names, and where each first occurs
IdsOf(items) == {items[k][1] : k \in 1..Len(items)}
FirstAt(items, s) ==
  CHOOSE k \in 1..Len(items) : items[k][1] = s /\ \A j \in 1..(k - 1) : items[j][1] # s

\* total quantity the lines of a body spelled s ask for
RECURSIVE QtyOfKey(_, _)
QtyOfKey(items, s) ==
  IF items = <<>> THEN 0
  ELSE (IF Head(items)[1] = s THEN Head(items)[2] ELSE 0) + QtyOfKey(Tail(items), s)

\* ids that first occur before s in the body
Earlier(items, s) == {t \in IdsOf(items) : FirstAt(items, t) < FirstAt(items, s)}

\* quantity of the product of s taken by the lines before s
RECURSIVE ReservedBy(_, _, _)
ReservedBy(T, items, s) ==
  IF T = {} THEN 0
  ELSE LET t == CHOOSE x \in T : TRUE
       IN (IF ToObjectId(t) = ToObjectId(s) THEN QtyOfKey(items, t) ELSE 0)
            + ReservedBy(T \ {t}, items, s)

AvailableTo(items, s) ==
  products[ToObjectId(s)].quantity - ReservedBy(Earlier(items, s), items, s)

\* the error of line s when the lines before it were reserved, "" when it has none
LineError(items, s, storeId) ==
  LET doc == products[ToObjectId(s)]
  IN IF doc.store # storeId THEN "Product not found in this store"
     ELSE IF AvailableTo(items, s) < QtyOfKey(items, s) THEN "Insufficient stock"
     ELSE IF ~IsFinite(Number(doc.price)) THEN "Invalid product pricing"
     ELSE ""

LineErrors == {"Product not found in this store", "Insufficient stock",
               "Invalid product pricing"}

Alone(i) == \A j \in ReqIds \ {i} : req[j].pc = "idle"

\* C13: a checkout refused for a line error reports a line of its body: details name
\* that line's productId (requested = the line's quantity for InsufficientStock), and
\* nothing stays reserved. When it ran alone, the line reported is the first, in
\* order of first occurrence in the body, that has an error against the catalog:
\* every line before it was reservable, the status is 404 for NotFound and 400
\* otherwise, and available is what the lines before it left.
C13_FirstFailingLine ==
  \A i \in ReqIds :
    req[i].kind = "checkout" /\ Failed(i) /\ req[i].message \in LineErrors =>
      LET s == req[i].details.productId
          items == req[i].items
          storeId == Account[req[i].principal].storeId
      IN /\ s \in IdsOf(items)
         /\ Untouched(i)
         /\ req[i].status = (IF req[i].message = "Product not found in this store"
                               THEN 404 ELSE 400)
         /\ req[i].message = "Insufficient stock" =>
              req[i].details.requested = QtyOfKey(items, s)
         /\ Alone(i) =>
              /\ LineError(items, s, storeId) = req[i].message
              /\ \A t \in Earlier(items, s) : LineError(items, t, storeId) = ""
              /\ req[i].message = "Insufficient stock" =>
                   req[i].details.available = AvailableTo(items, s)

\* C13 witness: a checkout that ran alone, refused on its first line while its second
\* line has another error
C13_Witness ==
  \E i \in ReqIds :
    /\ req[i].kind = "checkout" /\ Failed(i) /\ Alone(i)
    /\ Len(req[i].items) = 2 /\ req[i].items[1][1] # req[i].items[2][1]
    /\ req[i].details.productId = req[i].items[1][1]
    /\ req[i].message = "Insufficient stock"
    /\ LineError(req[i].items, req[i].items[2][1], Account[req[i].principal].storeId)
         = "Product not found in this store"

\* the request named, in its body, a product of another tenant
AsksForeign(i) ==
  \E s \in IdsOf(req[i].items) :
    products[ToObjectId(s)].store # Account[req[i].principal].storeId

\* C14: tenant isolation of writes. No request changes the committed or the
\* in-transaction quantity of a product of another tenant, every Sale row has the
\* store of the caller and a product of that store, and an error that names a
\* product of another tenant is 404 NotFound, never InsufficientStock.
C14_TenantIsolation ==
  /\ \A p \in Oids :
       (\A q \in Principals : Account[q].storeId # products[p].store) =>
         /\ products[p].quantity = InitialQuantity(p)
         /\ \A i \in ReqIds : req[i].applied[p] = 0 /\ p \notin DOMAIN req[i].writes
  /\ \A k \in 1..Len(sales) :
       /\ sales[k].store = Account[req[sales[k].by].principal].storeId
       /\ products[sales[k].product].store = sales[k].store
  /\ \A i \in ReqIds :
       Failed(i) /\ req[i].message \in LineErrors =>
         LET foreign == products[ToObjectId(req[i].details.productId)].store
                          # Account[req[i].principal].storeId
         IN /\ foreign => req[i].status = 404
                           /\ req[i].message = "Product not found in this store"
            /\ req[i].message = "Insufficient stock" => ~foreign
  /\ \A i \in ReqIds :
       req[i].kind = "sale" /\ Done(i) /\ AsksForeign(i) /\ req[i].message # "Validation error"
         => req[i].status = 404

\* C14 witness: a single sale and a checkout that asked for one unit of the other
\* tenant's product, which has one in stock, both answered 404
C14_Witness ==
  \E i, j \in ReqIds :
    /\ req[i].kind = "sale" /\ req[j].kind = "checkout"
    /\ \A n \in {i, j} :
         /\ Done(n) /\ req[n].status = 404 /\ req[n].details.productId = "cc"
         /\ QtyOfKey(req[n].items, "cc") <= products["cc"].quantity

\* a stored price that is a number
IsNumber(v) == v[1] = "num"

\* C15 (as claimed): a request that sold a product whose stored price is not a number
\* (absent, null) has been rejected with InvalidPricing, and every Sale row carries
\* as unitPrice the number stored as its product's price, never a substitute.
C15_InvalidPricingRejected ==
  /\ \A i \in ReqIds :
       Succeeded(i) => \A s \in IdsOf(req[i].items) : IsNumber(products[ToObjectId(s)].price)
  /\ \A k \in 1..Len(sales) :
       /\ IsNumber(products[sales[k].product].price)
       /\ sales[k].unitPrice = products[sales[k].product].price[2]

\* rows a step appends to the ledger
NewRows == (Len(sales) + 1)..Len(sales')

\* C16 (as claimed): price snapshot under concurrent catalog edits. The document a
\* single sale's decrement returns is the product as that decrement left it and the
\* row is priced from it; every row a checkout commits is priced at the product's
\* price in the state its decrements are committed in.
C16_PriceSnapshot ==
  [][\A i \in ReqIds :
       /\ req[i].pc = "reserve" /\ req'[i].pc = "create" =>
            req'[i].productDoc = products'[ToObjectId(req[i].items[1][1])]
       /\ req[i].pc = "create" /\ req'[i].pc = "done" =>
            \A k \in NewRows : <<sales'[k].unitPrice>> = Number(req[i].productDoc.price)
       /\ req[i].pc = "txn" /\ req'[i].pc = "done" /\ req'[i].status = 201 =>
            \A k \in NewRows :
              <<sales'[k].unitPrice>> = Number(products'[sales'[k].product].price)]_vars

\* rows of the ledger a principal may see: those of its tenant and, for a staff
\* account, recorded by it
VisibleTo(p) ==
  {k \in 1..Len(sales) :
     /\ sales[k].store = Account[p].storeId
     /\ Account[p].userType = "staff" => sales[k].staff = p}

IsStaff(p) == Account[p].userType = "staff"

\* a finished read of one of the given kinds
Read(i, kinds) == Done(i) /\ req[i].kind \in kinds

RowIds(K) == {sales[k]._id : k \in K}

\* ids of the rows a list, detail or receipt response shows
ShownIds(i) ==
  LET body == req[i].response
  IN CASE req[i].kind = "list" -> {body.data[n]._id : n \in DOMAIN body.data}
       [] req[i].kind = "detail" -> {body.sales[n]._id : n \in DOMAIN body.sales}
       [] req[i].kind = "receipt" -> {body.items[n].saleId : n \in DOMAIN body.items}

\* the transaction a row belongs to: its transactionId, or itself when it has none
KeyOf(k) ==
  IF sales[k].transactionId = NoTransaction THEN sales[k]._id ELSE sales[k].transactionId

\* a list or summary read that applies no staff filter of the caller's choosing
Unfiltered(i) == IsStaff(req[i].principal) \/ ~Truthy(req[i].params.staff)

\* C17: read scoping. A staff principal's list shows exactly the rows it recorded in
\* its tenant and its summaries cover exactly those rows, whatever the staff
\* parameter; an owner who sends no staff parameter gets all rows of the tenant; no
\* read of any of the four kinds shows a row the caller may not see.
C17_ReadScoping ==
  \A i \in ReqIds :
    LET p == req[i].principal
        body == req[i].response
    IN /\ Read(i, {"list", "transactions"}) /\ Unfiltered(i) => req[i].status = 200
       /\ Read(i, {"list"}) /\ req[i].status = 200 =>
            /\ ShownIds(i) \subseteq RowIds(VisibleTo(p))
            /\ Unfiltered(i) =>
                 /\ ShownIds(i) = RowIds(VisibleTo(p))
                 /\ Len(body.data) = Cardinality(VisibleTo(p))
                 /\ body.meta.total = Cardinality(VisibleTo(p))
       /\ Read(i, {"transactions"}) /\ req[i].status = 200 =>
            LET ids == {body.data[n].id : n \in DOMAIN body.data}
                count == SumOf(DOMAIN body.data,
                               [n \in DOMAIN body.data |-> body.data[n].itemsCount])
            IN /\ ids \subseteq {KeyOf(k) : k \in VisibleTo(p)}
               /\ count <= Cardinality(VisibleTo(p))
               /\ Unfiltered(i) =>
                    /\ ids = {KeyOf(k) : k \in VisibleTo(p)}
                    /\ count = Cardinality(VisibleTo(p))
       /\ Read(i, {"detail", "receipt"}) /\ req[i].status = 200 =>
            /\ ShownIds(i) \subseteq RowIds(VisibleTo(p))
            /\ body.transaction.itemsCount = Cardinality(ShownIds(i))

\* C17 witness: the ledger holds two rows of staff s1 and one of staff s2; s1 lists
\* the sales with staff = s2 in the query and is shown its own two
C17_Witness ==
  \E i \in ReqIds :
    /\ Read(i, {"list"}) /\ req[i].principal = "s1" /\ req[i].params.staff = "s2"
    /\ Cardinality({k \in 1..Len(sales) : sales[k].staff = "s2"}) = 1
    /\ Cardinality(VisibleTo("s1")) = 2
    /\ Len(req[i].response.data) = 2

\* rows with the given id, as transactionId or as row id, that the principal may see
VisibleWithId(p, oid) ==
  {k \in VisibleTo(p) : sales[k].transactionId = oid \/ sales[k]._id = oid}

\* C18: a detail or receipt lookup by a well-formed id answers 404, with no body,
\* when no row with that id (as transactionId or as row id) is visible to the
\* caller, and otherwise shows visible rows with that id only.
C18_HiddenIsNotFound ==
  \A i \in ReqIds :
    Read(i, {"detail", "receipt"}) /\ IsValidObjectId(req[i].params.transactionId) =>
      LET visible == VisibleWithId(req[i].principal, req[i].params.transactionId[2])
      IN /\ visible = {} => req[i].status = 404 /\ req[i].response = <<>>
         /\ req[i].status = 200 => ShownIds(i) \subseteq RowIds(visible)

\* C18 witness: staff s1 asks for the transaction of staff s2, whose row is in the
\* ledger of their store, and is answered 404
C18_Witness ==
  \E i \in ReqIds :
    /\ Read(i, {"detail"}) /\ req[i].principal = "s1"
    /\ req[i].params.transactionId = <<"oid", 2>>
    /\ \E k \in 1..Len(sales) : sales[k].transactionId = 2 /\ sales[k].store = "u1"
    /\ req[i].status = 404

\* the summaries of a listing whose id is the given one
SummariesOf(i, id) ==
  {n \in DOMAIN req[i].response.data : req[i].response.data[n].id = id}

\* C19: grouping fallback. A row without transactionId that the caller may see is,
\* in the summary listing, one summary of its own (id = the row's id, itemsCount 1,
\* its quantity, its totalPrice, its timestamp) and, looked up by its id in detail
\* and receipt, a transaction of that id made of that row alone.
C19_GroupingFallback ==
  \A i \in {j \in ReqIds : Done(j)} :
    \A k \in VisibleTo(req[i].principal) :
      sales[k].transactionId = NoTransaction =>
        /\ Read(i, {"transactions"}) /\ Unfiltered(i) =>
             /\ Cardinality(SummariesOf(i, sales[k]._id)) = 1
             /\ \A n \in SummariesOf(i, sales[k]._id) :
                  LET t == req[i].response.data[n]
                  IN /\ t.itemsCount = 1
                     /\ t.totalQuantity = sales[k].quantity
                     /\ t.total = sales[k].totalPrice
                     /\ t.createdAt = sales[k].createdAt
                     /\ t.lastCreatedAt = sales[k].createdAt
        /\ Read(i, {"detail", "receipt"})
             /\ req[i].params.transactionId = <<"oid", sales[k]._id>> =>
             /\ req[i].status = 200
             /\ req[i].response.transaction.id = sales[k]._id
             /\ req[i].response.transaction.itemsCount = 1
             /\ ShownIds(i) = {sales[k]._id}

\* C19 witness: two rows without transactionId in the ledger, listed by the owner as
\* two transactions of one row each
C19_Witness ==
  \E i \in ReqIds :
    /\ Read(i, {"transactions"}) /\ req[i].principal = "u1"
    /\ req[i].params.staff = Undefined
    /\ Cardinality({k \in 1..Len(sales) : sales[k].transactionId = NoTransaction}) = 2
    /\ \A k \in 1..Len(sales) :
         sales[k].transactionId = NoTransaction =>
           \E n \in SummariesOf(i, sales[k]._id) : req[i].response.data[n].itemsCount = 1

\* rows a summary listing groups: those the caller may see, of the staff member the
\* owner asked for if any
Grouped(i) ==
  {k \in VisibleTo(req[i].principal) :
     ~Unfiltered(i) => sales[k].staff = req[i].params.staff}

\* C20: transaction summaries. The listing has exactly one summary per transaction
\* key of the rows it groups, with itemsCount the number of rows of that key,
\* totalQuantity and total their sums, createdAt the least and lastCreatedAt the
\* greatest of their timestamps; summaries come in descending lastCreatedAt, and
\* meta.total is the number of keys.
C20_TransactionSummaries ==
  \A i \in ReqIds :
    Read(i, {"transactions"}) /\ req[i].status = 200 =>
      LET data == req[i].response.data
          keys == {KeyOf(k) : k \in Grouped(i)}
      IN /\ Len(data) = Cardinality(keys)
         /\ {data[n].id : n \in DOMAIN data} = keys
         /\ req[i].response.meta.total = Cardinality(keys)
         /\ \A n \in DOMAIN data :
              LET group == {k \in Grouped(i) : KeyOf(k) = data[n].id}
                  times == {sales[k].createdAt : k \in group}
              IN /\ data[n].itemsCount = Cardinality(group)
                 /\ data[n].totalQuantity = SumOf(group, [k \in group |-> sales[k].quantity])
                 /\ data[n].total = SumOf(group, [k \in group |-> sales[k].totalPrice])
                 /\ data[n].createdAt \in times /\ data[n].lastCreatedAt \in times
                 /\ \A t \in times : data[n].createdAt <= t /\ t <= data[n].lastCreatedAt
         /\ \A a, b \in DOMAIN data :
              a < b => data[a].lastCreatedAt >= data[b].lastCreatedAt

\* C20 witness: three rows in two transactions; the transaction listed first began
\* before the other and ended after it
C20_Witness ==
  \E i \in ReqIds :
    /\ Read(i, {"transactions"}) /\ req[i].status = 200
    /\ Cardinality(Grouped(i)) = 3
    /\ Len(req[i].response.data) = 2 /\ req[i].response.meta.total = 2
    /\ req[i].response.data[1].itemsCount = 2
    /\ req[i].response.data[1].createdAt < req[i].response.data[2].createdAt
    /\ req[i].response.data[2].createdAt < req[i].response.data[1].lastCreatedAt


\* the view of transaction i that its caller read back
Shown(i) ==
  IF req[i].view = "transactions"
    THEN LET data == req[i].response.data
         IN data[CHOOSE n \in DOMAIN data : data[n].id = req[i].transactionId]
    ELSE req[i].response.transaction

\* C21: for every committed transaction, the total, itemsCount and totalQuantity
\* of its receipt, of its detail and of its entry in the summaries are those of its
\* rows in the ledger, and the total is the total the sale or checkout call returned
C21_ViewsAgree ==
  \A i \in ReqIds :
    Succeeded(i) /\ req[i].view # "" =>
      /\ req[i].view \in {"transactions", "detail", "receipt"}
      /\ Shown(i).itemsCount = Cardinality(RowsBy(i))
      /\ Shown(i).totalQuantity = SumOf(RowsBy(i), [k \in RowsBy(i) |-> sales[k].quantity])
      /\ Shown(i).total = SumOf(RowsBy(i), [k \in RowsBy(i) |-> sales[k].totalPrice])
      /\ Shown(i).total = req[i].total

\* a two-line checkout that was retried and then read back as a receipt
C21_Witness ==
  \E i \in ReqIds :
    /\ Succeeded(i) /\ req[i].kind = "checkout" /\ req[i].view = "receipt"
    /\ Cardinality(RowsBy(i)) >= 2 /\ req[i].attempts >= 2


\* a finished GET /sales of the paginated reads
Listed(i) == Done(i) /\ req[i].kind = "list" /\ "limit" \in DOMAIN req[i].params

\* the rows the caller of request i may see within the date range of the request
InQuery(i) ==
  {k \in VisibleTo(req[i].principal) :
     LET q == req[i].params
     IN /\ q.startDate # Absent => sales[k].createdAt >= q.startDate[2]
        /\ q.endDate # Absent => sales[k].createdAt <= q.endDate[2]}

\* of those rows, the ones strictly beyond the cursor of request i in sort direction
Beyond(i) ==
  {k \in InQuery(i) :
     IF req[i].params.sort = "createdAt"
       THEN sales[k].createdAt > req[i].params.cursor[2]
       ELSE sales[k].createdAt < req[i].params.cursor[2]}

\* C22: when a cursor is supplied and the sort field is createdAt, the response holds
\* at most limit rows, all strictly beyond the cursor in sort direction, and
\* meta.nextCursor is the createdAt of the last returned row exactly when a further
\* matching row remains, and null otherwise
C22_CursorPagination ==
  \A i \in ReqIds :
    /\ Listed(i)
    /\ req[i].params.cursor[1] = "date"
    /\ req[i].params.sort \in {Undefined, "createdAt", "-createdAt"}
    => LET data == req[i].response.data
           meta == req[i].response.meta
       IN /\ Len(data) <= meta.limit
          /\ ShownIds(i) \subseteq RowIds(Beyond(i))
          /\ meta.nextCursor =
               IF Cardinality(Beyond(i)) > Len(data)
                 THEN <<"date", data[Len(data)].createdAt>>
                 ELSE <<"null">>

\* a page of one row by cursor with a further row left, and the last page by cursor
C22_Witness ==
  \E i \in ReqIds :
    /\ Listed(i) /\ req[i].params.cursor = <<"date", 2>>
    /\ req[i].params.sort = Undefined /\ req[i].params.limit = <<"int", 1>>
    /\ Len(req[i].response.data) = 1
    /\ req[i].response.meta.nextCursor = <<"date", 1>>



\* a finished paginated GET /sales or GET /sales/transactions
Paged(i) ==
  Done(i) /\ req[i].kind \in {"list", "transactions"} /\ "limit" \in DOMAIN req[i].params

\* C23: for every limit and page value (absent, zero, negative, non-numeric, above
\* 200) the lists use an effective limit between 1 and 200 and a page of at least 1:
\* 50 and 1 when the value is absent, zero or not a number, 1 when negative, 200 when
\* above 200, and they never return more rows than the effective limit
C23_ClampedPaging ==
  \A i \in ReqIds :
    Paged(i) =>
      LET q == req[i].params
          meta == req[i].response.meta
      IN /\ req[i].status = 200
         /\ meta.limit \in 1..200
         /\ meta.limit = (CASE q.limit \in {Absent, <<"int", 0>>, <<"text">>} -> 50
                            [] q.limit = <<"int", -5>> -> 1
                            [] q.limit = <<"int", 500>> -> 200
                            [] OTHER -> q.limit[2])
         /\ meta.page # <<"null">> =>
              /\ meta.page[2] >= 1
              /\ meta.page[2] = (IF q.page = <<"int", 2>> THEN 2 ELSE 1)
         /\ Len(req[i].response.data) <= meta.limit

\* a negative limit and a zero page answered with the first row of several
C23_Witness ==
  \E i \in ReqIds :
    /\ Paged(i) /\ req[i].params.limit = <<"int", -5>>
    /\ req[i].params.page = <<"int", 0>>
    /\ Len(req[i].response.data) = 1 /\ req[i].response.meta.total > 1

\* request i is answered by this step
Answers(i) == req[i].pc = "idle" /\ req'[i].pc = "done"

\* C28: a successful staff or owner refresh with token R stores the new refresh
\* token it returns, and R is no longer the stored token, so that a later refresh
\* with R is answered 401 and only the new token is accepted
C28_RefreshRotates ==
  [][\A i \in ReqIds :
       /\ Answers(i)
       /\ req'[i].kind \in {"refresh", "staff-refresh"}
       /\ req'[i].status = 200
       => LET R == req'[i].params.refreshToken
          IN /\ accounts'[R[2]].refreshToken = req'[i].response.refreshToken
             /\ accounts'[R[2]].refreshToken # R]_vars

\* the token is the stored refresh token of a staff member
Current(token) ==
  /\ token[1] = "jwt" /\ token[3] = "staff"
  /\ accounts[token[2]].stored /\ accounts[token[2]].refreshToken = token

\* C29: a staff logout with the current refresh token clears the stored token, and
\* every refresh for that account is answered 401 until the staff member logs in
\* again; a logout with an invalid or stale token is answered 200 and leaves the
\* stored tokens as they are
C29_LogoutRevokes ==
  [][/\ \A i \in ReqIds :
          Answers(i) /\ req'[i].kind = "staff-logout"
                     /\ req'[i].params.refreshToken[1] # "num" =>
            LET T == req'[i].params.refreshToken
            IN /\ req'[i].status = 200
               /\ accounts' = IF Current(T)
                                THEN [accounts EXCEPT ![T[2]].refreshToken = <<"null">>]
                                ELSE accounts
     /\ \A i \in ReqIds :
          Answers(i) /\ req'[i].kind = "staff-refresh"
                     /\ req'[i].params.refreshToken[1] = "jwt" =>
            LET T == req'[i].params.refreshToken
            IN accounts[T[2]].refreshToken = <<"null">> =>
                 req'[i].status = 401 /\ accounts' = accounts
     /\ \A a \in AccountIds :
          accounts[a].refreshToken = <<"null">> /\ accounts'[a].refreshToken # <<"null">> =>
            \E i \in ReqIds : /\ Answers(i) /\ req'[i].kind = "login"
                              /\ req'[i].principal = a /\ req'[i].status = 200]_vars

\* after a logout with the current token of a staff member, a refresh with that
\* token was answered 401
C29_Witness ==
  \E i, j \in ReqIds :
    /\ Done(i) /\ req[i].kind = "staff-logout" /\ req[i].status = 200
    /\ req[i].params.refreshToken[1] = "jwt"
    /\ Done(j) /\ req[j].kind = "staff-refresh" /\ req[j].status = 401
    /\ req[j].params.refreshToken = req[i].params.refreshToken
    /\ accounts[req[i].params.refreshToken[2]].stored
    /\ accounts[req[i].params.refreshToken[2]].refreshToken = <<"null">>

\* C24: the Sale ledger is append-only: no step of any sequence of sales, checkouts,
\* reads, product create, update and delete, staff create and delete, and reports
\* removes a row or changes a field of a row already in the ledger
C24_AppendOnly ==
  [][/\ Len(sales') >= Len(sales)
     /\ \A k \in 1..Len(sales) : sales'[k] = sales[k]]_vars

\* a row is in the ledger after the product it sold and the staff member who sold
\* it were deleted
C24_Witness ==
  /\ Len(sales) >= 1
  /\ \E k \in 1..Len(sales) :
       /\ sales[k].staff = "s1" /\ accounts["s1"] = DeletedAccount
       /\ products[sales[k].product] = Deleted

\* the Sale row a line of a receipt stands for
RowOf(item) == sales[CHOOSE k \in 1..Len(sales) : sales[k]._id = item.saleId]

\* C25: snapshot immunity: whatever renames and reprices of the product came after
\* the sale, every line of the receipt of a transaction shows the name and the
\* unitPrice captured in its row at sale time, and the receipt totals are those of
\* the rows
C25_SnapshotImmunity ==
  \A i \in ReqIds :
    Succeeded(i) /\ req[i].view = "receipt" =>
      LET items == req[i].response.items
      IN /\ \A n \in DOMAIN items :
              /\ items[n].name = RowOf(items[n]).productNameSnapshot
              /\ items[n].unitPrice = RowOf(items[n]).unitPrice
              /\ items[n].total = RowOf(items[n]).totalPrice
         /\ req[i].response.transaction.total = req[i].total

\* the unitCostPrice a row takes from a stored costPrice: the number, or null when
\* the stored value is not a number
CostSnapshot(costPrice) == IF IsNumber(costPrice) THEN costPrice ELSE <<"null">>

\* C26: a costPrice that is not a finite number never blocks a sale: the step that
\* builds a row, in POST /sales and in each line of a checkout, gives it the
\* product's costPrice as unitCostPrice when that is a number and null when it is
\* not, and the single sale then answers 201
C26_CostSnapshot ==
  [][\A i \in ReqIds :
       /\ req[i].pc = "create" /\ req'[i].pc = "done" =>
            /\ req'[i].status = 201
            /\ sales'[Len(sales')].unitCostPrice = CostSnapshot(req[i].productDoc.costPrice)
       /\ req[i].pc = "txn" /\ req'[i].pc = "txn"
            /\ Len(req'[i].saleInputs) = Len(req[i].saleInputs) + 1 =>
            LET doc == View(i, ToObjectId(req[i].merged[req[i].idx][1]))
            IN req'[i].saleInputs[Len(req'[i].saleInputs)].unitCostPrice
                 = CostSnapshot(doc.costPrice)]_vars

\* the body of request i has no items, a quantity below 1 or a product that is no id
Malformed(i) ==
  /\ req[i].kind \in {"sale", "checkout"}
  /\ \/ req[i].items = <<>>
     \/ \E k \in 1..Len(req[i].items) :
          req[i].items[k][2] < 1 \/ req[i].items[k][1] \notin IdStrings

\* C27: input validation is side-effect free. A checkout with empty items, a quantity
\* below 1 or an invalid product id, and a single sale with a non-positive quantity
\* or an invalid id, is answered 400 "Validation error" in the step that receives it:
\* that step changes neither stock nor ledger, and the request never holds a
\* decrement or a ledger row.
C27_ValidationFirst ==
  [][\A i \in ReqIds :
       Malformed(i)' =>
         /\ Done(i)' /\ req'[i].status = 400 /\ req'[i].message = "Validation error"
         /\ Untouched(i)'
         /\ ~Done(i) => products' = products /\ sales' = sales]_vars

\* C27 witness: a single sale of quantity 0 and a checkout whose second line is no
\* product id were both turned away, with the stock of the first line's product whole
C27_Witness ==
  \E i, j \in ReqIds :
    /\ Malformed(i) /\ Done(i) /\ req[i].kind = "sale" /\ req[i].items = << <<"aa", 0>> >>
    /\ Malformed(j) /\ Done(j) /\ req[j].kind = "checkout"
    /\ req[j].items = << <<"aa", 1>>, <<"not-an-id", 1>> >>
    /\ req[j].status = 400
    /\ products["aa"].quantity = StockA

\* request i acts in this step, on behalf of a principal whose role is staff
StaffActs(i) ==
  /\ req'[i] # req[i]
  /\ req'[i].principal \in Principals
  /\ Account[req'[i].principal].role = "staff"

\* C30: RBAC. A principal whose role is staff can record sales and checkouts but is
\* refused (403) on product create, update and delete and on every report endpoint:
\* a step of a request by such a principal leaves every product as it was, or takes
\* the stock decrement of a sale off its quantity and leaves its other fields alone.
C30_StaffRbac ==
  [][\A i \in ReqIds :
       StaffActs(i) =>
         /\ req'[i].kind \in {"product-create", "product-put", "product-delete", "report"} =>
              Done(i)' /\ req'[i].status = 403 /\ products' = products
         /\ \A p \in Oids :
              \/ products'[p] = products[p]
              \/ /\ req[i].kind \in {"sale", "checkout"}
                 /\ products'[p].quantity < products[p].quantity
                 /\ products'[p] = [products[p] EXCEPT !.quantity = products'[p].quantity]]_vars

\* C30 witness: a staff member's sale was recorded and took its unit of stock, and
\* the same staff member's product update was refused, the product's name and price
\* being those of the start
C30_Witness ==
  \E i, j \in ReqIds :
    /\ Succeeded(i) /\ req[i].principal = "s1" /\ RowsBy(i) # {}
    /\ Done(j) /\ req[j].kind = "product-put" /\ req[j].principal = "s1"
    /\ req[j].status = 403
    /\ products["aa"].quantity = StockA - 1
    /\ products["aa"].name = ProductName("aa") /\ products["aa"].price = <<"num", 5>>

\* sum of totalPrice over a set of rows
RECURSIVE SumTotalPrice(_)
SumTotalPrice(K) ==
  IF K = {} THEN 0
  ELSE LET k == CHOOSE x \in K : TRUE
       IN sales[k].totalPrice + SumTotalPrice(K \ {k})

\* the transaction body of checkout i was run again after an aborted attempt
Retried(i) == req[i].kind = "checkout" /\ req[i].attempts > 1

\* C31 (as claimed): retry safety of checkout. A checkout whose transaction body was
\* re-run after an aborted attempt, each of its products on one line, commits what a
\* single run commits: one Sale row per product, each product's stock reduced once
\* by its quantity, and a reported total equal to the sum of totalPrice of its rows.
C31_RetrySafety ==
  \A i \in ReqIds :
    Retried(i) /\ Succeeded(i) /\ (\A p \in Oids : LinesOf(req[i].items, p) <= 1) =>
      /\ \A p \in Oids :
           /\ Cardinality(RowsFor(i, p)) = (IF Wanted(i, p) > 0 THEN 1 ELSE 0)
           /\ req[i].applied[p] = Wanted(i, p)
      /\ req[i].total = SumTotalPrice(RowsBy(i))

\* no request is between its first and its last step
Quiescent == \A i \in ReqIds : req[i].pc \in {"idle", "done"}

\* quantity of product p over all committed Sale rows
SoldQuantity(p) ==
  LET rows == {k \in 1..Len(sales) : sales[k].product = p}
  IN SumOf(rows, [k \in rows |-> sales[k].quantity])

\* C32 (as claimed): stock conservation. With the catalog unedited, whenever every
\* request has its outcome, each product's initial quantity minus its current
\* quantity equals the sum of quantity over the committed Sale rows of that product:
\* no outcome leaves a decrement without a row or a row without a decrement.
C32_StockConservation ==
  Quiescent =>
    \A p \in Oids : InitialQuantity(p) - products[p].quantity = SoldQuantity(p)

\* C33 (as claimed): truthful InsufficientStock under interleaving. Whenever a single
\* sale or a checkout answers Insufficient stock, the available value of its details
\* is strictly less than the requested value, also with other sales, restocks and
\* product deletions between the failed conditional decrement and the re-fetch.
C33_TruthfulInsufficientStock ==
  \A i \in ReqIds :
    Done(i) /\ req[i].kind \in {"sale", "checkout"} /\ req[i].message = "Insufficient stock" =>
      req[i].details.available < req[i].details.requested

\* the cursor the listing of request i started from, and the rows of all its pages
StartCursor(i) == IF DOMAIN req[i].pages = {} THEN req[i].params.cursor ELSE req[i].pages.from
Collected(i) ==
  (IF DOMAIN req[i].pages = {} THEN <<>> ELSE req[i].pages.rows) \o req[i].response.data

\* the rows of the query of request i strictly beyond the cursor it started from
BeyondStart(i) ==
  {k \in InQuery(i) :
     IF req[i].params.sort = "createdAt"
       THEN sales[k].createdAt > StartCursor(i)[2]
       ELSE sales[k].createdAt < StartCursor(i)[2]}

\* C34 (as claimed): cursor iteration is complete. On an unchanged ledger, a listing
\* by createdAt that starts from a cursor and follows nextCursor until it is null
\* has returned every matching row beyond the initial cursor exactly once, rows
\* that share a createdAt value included.
C34_CursorIterationComplete ==
  \A i \in ReqIds :
    /\ Listed(i)
    /\ StartCursor(i)[1] = "date"
    /\ req[i].params.sort \in {Undefined, "createdAt", "-createdAt"}
    /\ req[i].response.meta.nextCursor = <<"null">>
    => LET rows == Collected(i)
       IN /\ {rows[n]._id : n \in DOMAIN rows} = RowIds(BeyondStart(i))
          /\ \A m, n \in DOMAIN rows : m # n => rows[m]._id # rows[n]._id

\* C35 (as claimed): meta.total of list-sales is the number of Sale rows that match
\* the caller's scope and the date filter of the request, whatever the page number,
\* the cursor position and the pagination mode, so it is the same on every page of
\* one listing.
C35_TotalOfListing ==
  \A i \in ReqIds :
    Listed(i) => req[i].response.meta.total = Cardinality(InQuery(i))

\* rows the caller of request i may see that belong to the transaction its response reports
RowsOfReported(i) ==
  {k \in VisibleTo(req[i].principal) : KeyOf(k) = req[i].response.transaction.id}

\* C36 (as claimed): detail/receipt completeness. Every transaction-detail and
\* receipt response returns all rows visible to the caller whose transaction key
\* equals the transaction id the response reports, and its itemsCount, totalQuantity
\* and total cover exactly those rows, also when the path parameter is the id of one
\* row of a transaction of several rows.
C36_LookupComplete ==
  \A i \in ReqIds :
    Read(i, {"detail", "receipt"}) /\ req[i].status = 200 =>
      LET K == RowsOfReported(i)
          t == req[i].response.transaction
      IN /\ ShownIds(i) = RowIds(K)
         /\ t.itemsCount = Cardinality(K)
         /\ t.totalQuantity = SumOf(K, [k \in K |-> sales[k].quantity])
         /\ t.total = SumOf(K, [k \in K |-> sales[k].totalPrice])

\* a finished refresh request that presented token R
Refreshed(i, R) ==
  /\ Done(i) /\ req[i].kind \in {"staff-refresh", "refresh"}
  /\ req[i].params.refreshToken = R

\* C37 (as claimed): single use of a refresh token under concurrency. Of the refresh
\* requests that present the same refresh token R, in any interleaving, at most one
\* succeeds and receives new tokens.
C37_SingleUse ==
  \A i, j \in ReqIds :
    \A R \in {T \in TokenValues : T[1] = "jwt"} :
      i # j /\ Refreshed(i, R) /\ Refreshed(j, R) =>
        ~(req[i].status = 200 /\ req[j].status = 200)

\* C38: checkout always completes. Under fair scheduling every checkout whose
\* transaction has started, concurrent checkouts that reserve the same products in
\* opposite orders included, ends with one response, of status 201, 400, 404 or 500.
C38_CheckoutCompletes ==
  \A i \in ReqIds :
    (req[i].kind = "checkout" /\ req[i].pc = "txn")
      ~> (Done(i) /\ req[i].status \in {201, 400, 404, 500})

\* C38 witness: two checkouts of the same two products in opposite orders have both
\* been answered, one of them after a write conflict
C38_Witness ==
  \E i, j \in ReqIds :
    /\ req[i].kind = "checkout" /\ req[i].items = << <<"aa", 1>>, <<"bb", 1>> >>
    /\ req[j].kind = "checkout" /\ req[j].items = << <<"bb", 1>>, <<"aa", 1>> >>
    /\ Done(i) /\ Done(j)
    /\ req[i].attempts > 1 \/ req[j].attempts > 1

\* C39: session lifecycle. A checkout that the request validators reject starts no
\* storage session; every other checkout starts one session, holds it open while
\* its transaction runs, and has ended it exactly once when it is answered, on
\* success, on the early validation returns, on a business error inside the
\* transaction and on a storage error alike.
C39_SessionLifecycle ==
  \A i \in ReqIds :
    req[i].kind = "checkout" =>
      /\ req[i].started = (IF Malformed(i) THEN 0 ELSE 1)
      /\ req[i].ended = (IF Done(i) THEN req[i].started ELSE 0)

\* C39 witness: two checkouts that started a session have ended it, one answered
\* 201 and one answered 500 after a storage error
C39_Witness ==
  \E i, j \in ReqIds :
    /\ req[i].kind = "checkout" /\ Succeeded(i) /\ req[i].started = 1 /\ req[i].ended = 1
    /\ req[j].kind = "checkout" /\ Done(j) /\ req[j].status = 500
    /\ req[j].started = 1 /\ req[j].ended = 1

====
